---- MODULE Spec2Model ----
(***************************************************************************)
(* Section membership core of the SAFE Network node.                       *)
(*                                                                         *)
(* The membership message handler (sn_node/.../handling/membership.rs) is  *)
(* translated from its source.  The membership engine it drives            *)
(* (crate::node::membership, sn_consensus) and the send helpers are not    *)
(* part of the source tree at hand; they are modelled from the design     *)
(* document (sections 4.4, 4.5, 6).                                        *)
(***************************************************************************)
EXTENDS Integers, Sequences, FiniteSets, TLC

VARIABLES membership, network_knowledge, call, tasks, engine_lock, knowledge_lock

vars == <<membership, network_knowledge, call, tasks, engine_lock, knowledge_lock>>

\* The state of the tasks that run handlers concurrently, and of the two locks.
conc == <<tasks, engine_lock, knowledge_lock>>

(***************************************************************************)
(* Bounds of the model.                                                    *)
(***************************************************************************)
MaxElders == 2
MaxGen == 1
MaxBatch == 2
NameBits == 2

(***************************************************************************)
(* Values.                                                                 *)
(***************************************************************************)
\* Option::None, for the engine slot and for most_recent_decision.
None == [kind |-> "None"]

\* Index of the local node among the voters of the section key set.
Us == 1

\* A Prefix is a sequence of bits, a XorName a sequence of NameBits bits.
Prefixes == {<<0>>, <<1>>}

RECURSIVE Zeros(_)
Zeros(k) == IF k <= 0 THEN <<>> ELSE <<0>> \o Zeros(k - 1)

\* Prefix::name(): the prefix bits padded with zeros to a full name.
PrefixName(prefix) == prefix \o Zeros(NameBits - Len(prefix))

\* Prefix::matches(name): the name starts with the prefix bits.
Matches(prefix, name) ==
    /\ Len(prefix) <= Len(name)
    /\ SubSeq(name, 1, Len(prefix)) = prefix

Joining == [tag |-> "Joining", target |-> <<>>]
Left == [tag |-> "Left", target |-> <<>>]
Relocated(target) == [tag |-> "Relocated", target |-> target]

NodeState(name, state) == [name |-> name, state |-> state]

\* The node states the environment proposes and votes on: a joining node, the
\* same node leaving, and a node relocated to a name under prefix <<1>>.
NodeStates ==
    { NodeState(1, Joining), NodeState(1, Left),
      NodeState(2, Relocated(PrefixName(<<1>>))) }

\* SignedVote<NodeState>: generation, voter (signature share) and ballot.
SignedVote(gen, voter, ballot) == [gen |-> gen, voter |-> voter, ballot |-> ballot]

\* Ord of NodeState, the key order of Decision.proposals (a BTreeMap).
StateRank(state) ==
    CASE state.tag = "Joining" -> 0
      [] state.tag = "Left" -> 1
      [] OTHER -> 2

NodeStateLess(a, b) ==
    \/ a.name < b.name
    \/ a.name = b.name /\ StateRank(a.state) < StateRank(b.state)

RECURSIVE InKeyOrder(_)
InKeyOrder(states) ==
    IF states = {} THEN <<>>
    ELSE LET lo == CHOOSE s \in states : \A t \in states \ {s} : NodeStateLess(s, t)
         IN  <<lo>> \o InKeyOrder(states \ {lo})

(***************************************************************************)
(* Membership engine (design document, section 4.4).                       *)
(***************************************************************************)
\* Votes needed for a decision among n voters: more than two thirds.
Threshold(n) == n - ((n - 1) \div 3)

\* The aggregated section signature of a decided node state.
AggregateSig(pk_set, gen, state) == [by |-> pk_set.master, gen |-> gen, over |-> state]

\* PublicKeySet::public_key().
PublicKeyOf(pk_set) == pk_set.master

\* "Created from the initial section's key set; generation starts at 0."
NewMembership(n, section_key) ==
    [ kind |-> "Engine",
      elders |-> n,
      gen |-> 0,
      votes |-> [e \in 1..n |-> {}],
      decision |-> None,
      history |-> <<>>,
      pk_set |-> [master |-> section_key, threshold |-> Threshold(n)] ]

Generation(m) == m.gen

MostRecentDecision(m) == m.decision

VotersPublicKeySet(m) == m.pk_set

\* True iff the state is Left, or Relocated to a name the prefix does not match.
IsLeavingSection(node_state, prefix) ==
    \/ node_state.state.tag = "Left"
    \/ /\ node_state.state.tag = "Relocated"
       /\ ~Matches(prefix, node_state.state.target)

\* All proposals pending in the generation being voted.
Pending(m) == UNION {m.votes[e] : e \in 1..m.elders}

\* propose: errors on a pending, incompatible proposal for the same node;
\* otherwise adds the proposal to our ballot and returns our signed vote.
Propose(m, node_state, prefix) ==
    IF \E s \in Pending(m) : s.name = node_state.name /\ s # node_state
    THEN [kind |-> "Err", err |-> "ConflictingProposal", m |-> m]
    ELSE LET ballot == m.votes[Us] \cup {node_state}
         IN  [ kind |-> "Ok",
               m |-> [m EXCEPT !.votes[Us] = ballot],
               vote |-> SignedVote(m.gen + 1, Us, ballot) ]

\* The ballots that at least Threshold voters have voted for.
Agreed(votes, n) ==
    { b \in {votes[e] : e \in 1..n} \ {{}} :
        Cardinality({e \in 1..n : votes[e] = b}) >= Threshold(n) }

\* The votes of the voters that voted for ballot b, in voter order.
VotesFor(b, votes, n, gen) ==
    SelectSeq([e \in 1..n |-> SignedVote(gen, e, votes[e])],
              LAMBDA v : v.ballot = b)

\* Mutant: a decision is set without advancing the generation.
DecideWithoutAdvancing(m, votes, b) ==
    [ m EXCEPT
        !.votes = [e \in 1..m.elders |-> {}],
        !.decision =
            [ kind |-> "Decision",
              gen |-> m.gen,
              proposals |-> [s \in b |-> AggregateSig(m.pk_set, m.gen, s)] ] ]

\* Voting -> Decided: the generation advances by one, the decision is set.
Decide(m, votes, b) ==
    [ m EXCEPT
        !.gen = m.gen + 1,
        !.votes = [e \in 1..m.elders |-> {}],
        !.decision =
            [ kind |-> "Decision",
              gen |-> m.gen + 1,
              proposals |-> [s \in b |-> AggregateSig(m.pk_set, m.gen + 1, s)] ],
        !.history = Append(m.history, VotesFor(b, votes, m.elders, m.gen + 1)) ]

\* handle_signed_vote: a vote of a non-voter is an error; a vote that is not
\* of the generation being voted (ahead of it, or stale) asks for
\* anti-entropy; otherwise the vote is recorded, our ballot absorbs its
\* proposals (a Broadcast of our new vote when it grew) and the generation
\* is decided once Threshold voters hold the same ballot.
HandleSignedVote(m, v, prefix) ==
    IF v.voter \notin 1..m.elders
    THEN [kind |-> "Err", err |-> "InvalidVote", m |-> m]
    ELSE IF v.gen # m.gen + 1
    THEN [kind |-> "Err", err |-> "RequestAntiEntropy", m |-> m]
    ELSE LET recorded == [m.votes EXCEPT ![v.voter] = @ \cup v.ballot]
             merged == m.votes[Us] \cup v.ballot
             votes == [recorded EXCEPT ![Us] = merged]
             agreed == Agreed(votes, m.elders)
             after == IF agreed = {}
                      THEN [m EXCEPT !.votes = votes]
                      ELSE Decide(m, votes, CHOOSE b \in agreed : TRUE)
         IN  IF v.voter # Us /\ merged # m.votes[Us]
             THEN [ kind |-> "Broadcast", m |-> after,
                    vote |-> SignedVote(m.gen + 1, Us, merged) ]
             ELSE [kind |-> "WaitingForMoreVotes", m |-> after]

RECURSIVE CatchUp(_, _, _)
CatchUp(history, from, to) ==
    IF from > to THEN <<>>
    ELSE history[from] \o CatchUp(history, from + 1, to)

\* anti_entropy: the votes of the generations in (their_gen, generation],
\* or an error when building them fails.
AntiEntropy(m, their_gen, built) ==
    IF their_gen >= m.gen THEN [kind |-> "Ok", votes |-> <<>>]
    ELSE IF ~built THEN [kind |-> "Err", err |-> "Consensus"]
    ELSE [kind |-> "Ok", votes |-> CatchUp(m.history, their_gen + 1, m.gen)]

(***************************************************************************)
(* Messages and commands (design document, section 6).                     *)
(***************************************************************************)
MembershipVotes(votes) == [type |-> "MembershipVotes", votes |-> votes]

MembershipAE(gen) == [type |-> "MembershipAE", gen |-> gen]

\* send_msg_to_our_elders: the broadcast command to the current elders.
SendMsgToOurElders(msg) == [cmd |-> "SendMsgToOurElders", msg |-> msg]

\* send_direct_msg_to_nodes: the targeted send command.
SendDirectMsgToNodes(recipients, msg, section_name, dst_section_pk) ==
    [ cmd |-> "SendDirectMsgToNodes", recipients |-> recipients, msg |-> msg,
      section_name |-> section_name, dst_section_pk |-> dst_section_pk ]

\* send_direct_msg: the single-peer reply command.
SendDirectMsg(peer, msg, section_pk) ==
    [cmd |-> "SendDirectMsg", recipient |-> peer, msg |-> msg, section_pk |-> section_pk]

KeyedSig(public_key, signature) == [public_key |-> public_key, signature |-> signature]

SectionAuth(value, sig) == [value |-> value, sig |-> sig]

HandleNodeLeft(auth) == [cmd |-> "HandleNodeLeft", auth |-> auth]

HandleNewNodeOnline(auth) == [cmd |-> "HandleNewNodeOnline", auth |-> auth]

(***************************************************************************)
(* The engine's readers-writer lock, the lock of the network-knowledge     *)
(* view, and the tasks that run handler operations.                        *)
(***************************************************************************)
\* Number of tasks that run handler operations concurrently.
MaxTasks == 2

Tasks == 1..MaxTasks

\* A readers-writer lock: the task holding it exclusively (0: none) and the
\* tasks holding it shared.
Unlocked == [writer |-> 0, readers |-> {}]

\* write().await completes when nobody holds the lock.
CanWrite(lock) == lock.writer = 0 /\ lock.readers = {}

\* read().await completes when nobody holds the lock exclusively.
CanRead(lock) == lock.writer = 0

WriteGuard(lock, t) == [lock EXCEPT !.writer = t]

ReadGuard(lock, t) == [lock EXCEPT !.readers = @ \cup {t}]

\* Dropping the guards a task holds.
DropGuard(lock, t) ==
    [ writer |-> IF lock.writer = t THEN 0 ELSE lock.writer,
      readers |-> lock.readers \ {t} ]

HoldsEngineLock(t) == engine_lock.writer = t \/ t \in engine_lock.readers

\* A task that runs no handler operation.
IdleTask == [op |-> "none", pc |-> "idle"]

(***************************************************************************)
(* Membership message handler (handling/membership.rs).                    *)
(*                                                                         *)
(* A send helper (send_msg_to_our_elders, send_direct_msg_to_nodes,        *)
(* send_direct_msg) returns Result<Cmd>; the handler applies ? to it.      *)
(* Whether the helper returns Ok is an input of each operation (sent).     *)
(***************************************************************************)
\* The broadcast of the engine's response vote (lines 66-73).
OnBroadcast(response_vote) == SendMsgToOurElders(MembershipVotes(<<response_vote>>))

\* Mutant: the request names the generation being voted, not the engine's.
OnRequestAntiEntropyNextGen(m, nk, prefix, peer) ==
    SendDirectMsgToNodes(<<peer>>, MembershipAE(Generation(m) + 1),
                         PrefixName(prefix), nk.sap.section_key)

\* Mutant: the request goes to the local node, not to the sender of the batch.
OnRequestAntiEntropyToUs(m, nk, prefix, peer) ==
    SendDirectMsgToNodes(<<Us>>, MembershipAE(Generation(m)),
                         PrefixName(prefix), nk.sap.section_key)

\* The anti-entropy request to the sender of the batch (lines 81-87).
OnRequestAntiEntropy(m, nk, prefix, peer) ==
    LET sap == nk.sap
        dst_section_pk == sap.section_key
        section_name == PrefixName(prefix)
        msg == MembershipAE(Generation(m))
    IN  SendDirectMsgToNodes(<<peer>>, msg, section_name, dst_section_pk)

\* Mutant: the request does not end the batch.
AfterAntiEntropyRequestContinue == "continue"

\* After the request the handler returns what it has (lines 90-93).
AfterAntiEntropyRequest == "return"

\* Mutant: an engine error skips only the vote that caused it.
OnOtherErrorContinue == "continue"

\* Any other engine error leaves the loop (lines 95-98).
OnOtherError == "break"

\* Mutant: every decided state is reported as a node coming online.
DecisionCmdAlwaysOnline(m, state, signature, prefix) ==
    HandleNewNodeOnline(
        SectionAuth(state, KeyedSig(PublicKeyOf(VotersPublicKeySet(m)), signature)))

\* The command of one entry of a decision (lines 111-127).
DecisionCmd(m, state, signature, prefix) ==
    LET sig == KeyedSig(PublicKeyOf(VotersPublicKeySet(m)), signature)
    IN  IF IsLeavingSection(state, prefix)
        THEN HandleNodeLeft(SectionAuth(state, sig))
        ELSE HandleNewNodeOnline(SectionAuth(state, sig))

\* Mutant: a decision is reported only by the vote that produced it.
DecisionCmdsOnce(m, prefix) ==
    LET decision == MostRecentDecision(m)
    IN  IF decision = None \/ Pending(m) # {} THEN <<>>
        ELSE LET keys == InKeyOrder(DOMAIN decision.proposals)
             IN  [ i \in 1..Len(keys) |->
                     DecisionCmd(m, keys[i], decision.proposals[keys[i]], prefix) ]

\* Mutant: the decision is not read after the vote.
DecisionCmdsNone(m, prefix) == <<>>

\* The commands of the most recent decision, if any (lines 105-128).
DecisionCmds(m, prefix) ==
    LET decision == MostRecentDecision(m)
    IN  IF decision = None THEN <<>>
        ELSE LET keys == InKeyOrder(DOMAIN decision.proposals)
             IN  [ i \in 1..Len(keys) |->
                     DecisionCmd(m, keys[i], decision.proposals[keys[i]], prefix) ]

\* Mutant: a vote without an engine fails the call.
VoteWithoutMembershipFails(m) ==
    [m |-> m, next |-> "fail", cmds |-> <<>>, resp |-> "NoEngine", err |-> ""]

\* Without an engine the vote is logged and skipped (lines 129-133).
VoteWithoutMembership(m) ==
    [m |-> m, next |-> "continue", cmds |-> <<>>, resp |-> "NoEngine", err |-> ""]

\* Mutant: a vote the engine only accepts is passed on to the elders too.
HandleVoteGossipsAccepted(m, nk, prefix, peer, v, sent) ==
    IF m = None THEN VoteWithoutMembership(m)
    ELSE LET r == HandleSignedVote(m, v, prefix)
             err == IF r.kind = "Err" THEN r.err ELSE ""
         IN  CASE r.kind \in {"Broadcast", "WaitingForMoreVotes"} ->
                    IF sent
                    THEN [ m |-> r.m, next |-> "continue", resp |-> r.kind, err |-> err,
                           cmds |-> << OnBroadcast(IF r.kind = "Broadcast"
                                                   THEN r.vote ELSE v) >>
                                      \o DecisionCmds(r.m, prefix) ]
                    ELSE [ m |-> r.m, next |-> "fail", resp |-> r.kind, err |-> err,
                           cmds |-> <<>> ]
               [] r.kind = "Err" /\ r.err = "RequestAntiEntropy" ->
                    IF sent
                    THEN [ m |-> r.m, next |-> AfterAntiEntropyRequest, resp |-> r.kind,
                           err |-> err,
                           cmds |-> <<OnRequestAntiEntropy(r.m, nk, prefix, peer)>> ]
                    ELSE [ m |-> r.m, next |-> "fail", resp |-> r.kind, err |-> err,
                           cmds |-> <<>> ]
               [] OTHER ->
                    [ m |-> r.m, next |-> OnOtherError, resp |-> r.kind, err |-> err,
                      cmds |-> <<>> ]

\* One iteration of the loop over the batch (lines 63-134).  next tells the
\* loop to "continue", to "break", to "return" Ok(cmds), or to "fail" with
\* the send helper's error; cmds are the commands pushed in this iteration.
HandleVote(m, nk, prefix, peer, v, sent) ==
    IF m = None THEN VoteWithoutMembership(m)
    ELSE LET r == HandleSignedVote(m, v, prefix)
             err == IF r.kind = "Err" THEN r.err ELSE ""
         IN  CASE r.kind = "Broadcast" ->
                    IF sent
                    THEN [ m |-> r.m, next |-> "continue", resp |-> r.kind, err |-> err,
                           cmds |-> <<OnBroadcast(r.vote)>> \o DecisionCmds(r.m, prefix) ]
                    ELSE [ m |-> r.m, next |-> "fail", resp |-> r.kind, err |-> err,
                           cmds |-> <<>> ]
               [] r.kind = "WaitingForMoreVotes" ->
                    [ m |-> r.m, next |-> "continue", resp |-> r.kind, err |-> err,
                      cmds |-> DecisionCmds(r.m, prefix) ]
               [] r.kind = "Err" /\ r.err = "RequestAntiEntropy" ->
                    IF sent
                    THEN [ m |-> r.m, next |-> AfterAntiEntropyRequest, resp |-> r.kind,
                           err |-> err,
                           cmds |-> <<OnRequestAntiEntropy(r.m, nk, prefix, peer)>> ]
                    ELSE [ m |-> r.m, next |-> "fail", resp |-> r.kind, err |-> err,
                           cmds |-> <<>> ]
               [] OTHER ->
                    [ m |-> r.m, next |-> OnOtherError, resp |-> r.kind, err |-> err,
                      cmds |-> <<>> ]

\* The record of one iteration, kept with the call for the properties: the
\* vote, the engine's response, the engine's generation and decision right
\* after it, how the iteration ended and the commands it pushed.
Observed(v, step) ==
    [ vote |-> v, resp |-> step.resp, err |-> step.err,
      gen |-> IF step.m = None THEN 0 ELSE Generation(step.m),
      decision |-> IF step.m = None THEN None ELSE MostRecentDecision(step.m),
      next |-> step.next, emitted |-> step.cmds ]

\* Mutant: the commands of a vote are put in front of the earlier ones.
PushedInFront(cmds, pushed) == pushed \o cmds

\* cmds.push(..), for the commands of one iteration in the order they are
\* built (lines 61, 67, 90, 117, 122).
Pushed(cmds, pushed) == cmds \o pushed

\* The loop over the batch from vote i on (lines 61-136): the engine after
\* it, the result, the returned commands and the record of each iteration.
RECURSIVE VotesLoop(_, _, _, _, _, _, _, _, _)
VotesLoop(m, nk, prefix, peer, signed_votes, sends, i, cmds, log) ==
    IF i > Len(signed_votes)
    THEN [m |-> m, result |-> "Ok", cmds |-> cmds, log |-> log]
    ELSE LET step == HandleVote(m, nk, prefix, peer, signed_votes[i], sends[i])
             out == Pushed(cmds, step.cmds)
             seen == Append(log, Observed(signed_votes[i], step))
         IN  CASE step.next = "continue" ->
                    VotesLoop(step.m, nk, prefix, peer, signed_votes, sends,
                              i + 1, out, seen)
               [] step.next = "fail" ->
                    [m |-> step.m, result |-> "Err", cmds |-> <<>>, log |-> seen]
               [] OTHER ->
                    [m |-> step.m, result |-> "Ok", cmds |-> out, log |-> seen]

\* No handler call is running: the last result has been taken by the caller.
Idle == [op |-> "none"]

\* Mutant: the engine's error is returned to the caller.
OnProposeErrorFails == [result |-> "Err", cmds |-> <<>>]

\* The result on a failed propose (lines 34-37).
OnProposeError == [result |-> "Ok", cmds |-> <<>>]

\* Mutant: the broadcast does not carry the vote.
OnProposedWithoutVote(membership_vote, sent) ==
    IF sent
    THEN [result |-> "Ok", cmds |-> <<SendMsgToOurElders(MembershipVotes(<<>>))>>]
    ELSE [result |-> "Err", cmds |-> <<>>]

\* The result of a successful propose (lines 40-43).
OnProposed(membership_vote, sent) ==
    IF sent
    THEN [result |-> "Ok", cmds |-> <<SendMsgToOurElders(MembershipVotes(<<membership_vote>>))>>]
    ELSE [result |-> "Err", cmds |-> <<>>]

\* The result of propose_membership_change without an engine (lines 44-47).
ProposeWithoutMembership == [result |-> "Ok", cmds |-> <<>>]

\* Node::propose_membership_change (lines 22-48).
ProposeMembershipChange(node_state, sent) ==
    /\ call = Idle
    /\ LET prefix == network_knowledge.prefix
           r == IF membership = None THEN [kind |-> "NoEngine", m |-> membership]
                ELSE Propose(membership, node_state, prefix)
           out == CASE r.kind = "NoEngine" -> ProposeWithoutMembership
                    [] r.kind = "Err" -> OnProposeError
                    [] OTHER -> OnProposed(r.vote, sent)
       IN  /\ membership' = r.m
           /\ call' =
                [ op |-> "propose", node_state |-> node_state, pre |-> membership,
                  engine |-> r.kind, result |-> out.result, cmds |-> out.cmds ]
    /\ UNCHANGED network_knowledge

\* Node::handle_membership_votes (lines 50-137).
HandleMembershipVotes(peer, signed_votes, sends) ==
    /\ call = Idle
    /\ LET prefix == network_knowledge.prefix
           r == VotesLoop(membership, network_knowledge, prefix, peer,
                          signed_votes, sends, 1, <<>>, <<>>)
       IN  /\ membership' = r.m
           /\ call' =
                [ op |-> "votes", peer |-> peer, signed_votes |-> signed_votes,
                  pre |-> membership, result |-> r.result, cmds |-> r.cmds,
                  log |-> r.log ]
    /\ UNCHANGED network_knowledge

RECURSIVE Reversed(_)
Reversed(seq) == IF seq = <<>> THEN <<>> ELSE Append(Reversed(Tail(seq)), Head(seq))

\* Mutant: the catch-up votes are sent newest first.
OnCatchupVotesNewestFirst(peer, catchup_votes, section_key, sent) ==
    IF sent
    THEN [ result |-> "Ok",
           cmds |-> << SendDirectMsg(peer, MembershipVotes(Reversed(catchup_votes)),
                                     section_key) >> ]
    ELSE [result |-> "Err", cmds |-> <<>>]

\* The reply to an anti-entropy request (lines 153-162).
OnCatchupVotes(peer, catchup_votes, section_key, sent) ==
    IF sent
    THEN [ result |-> "Ok",
           cmds |-> <<SendDirectMsg(peer, MembershipVotes(catchup_votes), section_key)>> ]
    ELSE [result |-> "Err", cmds |-> <<>>]

\* The result on a failed anti_entropy (lines 163-166).
OnAntiEntropyError == [result |-> "Ok", cmds |-> <<>>]

\* The result of handle_membership_anti_entropy without an engine (lines 168-173).
AntiEntropyWithoutMembership == [result |-> "Ok", cmds |-> <<>>]

\* Mutant: the engine is asked for the votes after the generation that
\* follows the peer's.
HandleMembershipAntiEntropyOffByOne(peer, gen, built, sent) ==
    /\ call = Idle
    /\ LET r == IF membership = None THEN [kind |-> "NoEngine", votes |-> <<>>]
                ELSE AntiEntropy(membership, gen + 1, built)
           out == CASE r.kind = "NoEngine" -> AntiEntropyWithoutMembership
                    [] r.kind = "Err" -> OnAntiEntropyError
                    [] OTHER -> OnCatchupVotes(peer, r.votes,
                                               network_knowledge.section_key, sent)
       IN  call' =
             [ op |-> "anti_entropy", peer |-> peer, gen |-> gen, pre |-> membership,
               engine |-> r.kind,
               catchup_votes |-> IF r.kind = "Ok" THEN r.votes ELSE <<>>,
               result |-> out.result, cmds |-> out.cmds ]
    /\ UNCHANGED <<membership, network_knowledge>>

\* Node::handle_membership_anti_entropy (lines 139-176).
HandleMembershipAntiEntropy(peer, gen, built, sent) ==
    /\ call = Idle
    /\ LET r == IF membership = None THEN [kind |-> "NoEngine", votes |-> <<>>]
                ELSE AntiEntropy(membership, gen, built)
           out == CASE r.kind = "NoEngine" -> AntiEntropyWithoutMembership
                    [] r.kind = "Err" -> OnAntiEntropyError
                    [] OTHER -> OnCatchupVotes(peer, r.votes,
                                               network_knowledge.section_key, sent)
       IN  call' =
             [ op |-> "anti_entropy", peer |-> peer, gen |-> gen, pre |-> membership,
               engine |-> r.kind,
               catchup_votes |-> IF r.kind = "Ok" THEN r.votes ELSE <<>>,
               result |-> out.result, cmds |-> out.cmds ]
    /\ UNCHANGED <<membership, network_knowledge>>

\* The caller takes the result of the call.
Return ==
    /\ call # Idle
    /\ call' = Idle
    /\ UNCHANGED <<membership, network_knowledge>>
    /\ UNCHANGED conc

\* The node constructs its membership engine for a section of n elders.
CreateMembership(n) ==
    /\ call = Idle
    /\ membership = None
    /\ membership' = NewMembership(n, network_knowledge.section_key)
    /\ UNCHANGED <<network_knowledge, call>>

(***************************************************************************)
(* Inputs and specification.                                               *)
(***************************************************************************)
Peers == 1..MaxElders

\* The ballots peers vote for: a fixed proposal, or the ballot we hold.
PeerBallots ==
    {{NodeState(1, Joining)}}
        \cup (IF membership = None THEN {}
              ELSE IF membership.votes[Us] = {} THEN {}
              ELSE {membership.votes[Us]})

VoteInputs ==
    { SignedVote(g, e, b) : g \in 1..(MaxGen + 1), e \in Peers, b \in PeerBallots }

BatchInputs == UNION {[1..k -> VoteInputs] : k \in 0..MaxBatch}

SectionKeys == {"K0"}

\* The generation stays within max_gen.
Capped(max_gen) == IF membership = None THEN TRUE ELSE Generation(membership) <= max_gen

Init ==
    /\ membership = None
    /\ network_knowledge \in
         { [ prefix |-> p, section_key |-> k,
             sap |-> [prefix |-> p, section_key |-> k] ] :
             p \in Prefixes, k \in SectionKeys }
    /\ call = Idle
    /\ tasks = [t \in Tasks |-> IdleTask]
    /\ engine_lock = Unlocked
    /\ knowledge_lock = Unlocked

\* The node is given its engine.
Create ==
    /\ call = Idle
    /\ \E n \in 1..MaxElders : CreateMembership(n)
    /\ UNCHANGED conc

\* A membership change is to be proposed.
ProposeCall ==
    /\ call = Idle
    /\ \E node_state \in NodeStates, sent \in BOOLEAN :
         ProposeMembershipChange(node_state, sent)
    /\ UNCHANGED conc

\* A MembershipVotes message arrives from a peer.
VotesCall ==
    /\ call = Idle
    /\ \E peer \in Peers, signed_votes \in BatchInputs :
         \E sends \in [1..Len(signed_votes) -> BOOLEAN] :
           HandleMembershipVotes(peer, signed_votes, sends) /\ Capped(MaxGen)'
    /\ UNCHANGED conc

\* A MembershipAE message arrives from a peer.
AntiEntropyCall ==
    /\ call = Idle
    /\ \E peer \in Peers, gen \in 0..(MaxGen + 1), built \in BOOLEAN, sent \in BOOLEAN :
         HandleMembershipAntiEntropy(peer, gen, built, sent)
    /\ UNCHANGED conc

Next == Create \/ ProposeCall \/ VotesCall \/ AntiEntropyCall \/ Return

Spec == Init /\ [][Next]_vars

(***************************************************************************)
(* The stale-vote fixture: an engine that has decided AeFixtureGen          *)
(* generations of one proposal is sent batches headed by votes of          *)
(* generation StaleVoteGen.                                                *)
(***************************************************************************)
AeFixtureGen == 5
StaleVoteGen == 2

\* Votes for one proposal, of the stale generation or of the one being voted.
FixtureVoteInputs ==
    { SignedVote(g, e, {NodeState(1, Joining)}) :
        g \in {StaleVoteGen}
                \cup (IF membership = None THEN {} ELSE {Generation(membership) + 1}),
        e \in Peers }

FixtureBatchInputs == UNION {[1..k -> FixtureVoteInputs] : k \in 1..MaxBatch}

FixtureVotesCall ==
    /\ call = Idle
    /\ \E peer \in Peers, signed_votes \in FixtureBatchInputs :
         \E sends \in [1..Len(signed_votes) -> BOOLEAN] :
           HandleMembershipVotes(peer, signed_votes, sends) /\ Capped(AeFixtureGen)'
    /\ UNCHANGED conc

\* A MembershipAE message arrives from a peer that is at any generation up
\* to the engine's, or beyond it.
FixtureAntiEntropyCall ==
    /\ call = Idle
    /\ \E peer \in Peers, gen \in 0..(AeFixtureGen + 1), built \in BOOLEAN,
          sent \in BOOLEAN :
         HandleMembershipAntiEntropy(peer, gen, built, sent)
    /\ UNCHANGED conc

FixtureNext == Create \/ FixtureVotesCall \/ FixtureAntiEntropyCall \/ Return

FixtureSpec == Init /\ [][FixtureNext]_vars

(***************************************************************************)
(* The handler operations run as concurrent tasks.  A task is suspended    *)
(* where its operation awaits: the read of the network-knowledge view,     *)
(* the engine lock, a send helper.  What an operation does between two     *)
(* awaits is one step.  The guard taken in the condition of an if-let is   *)
(* dropped at the end of that statement, 'return' and '?' included.        *)
(***************************************************************************)
\* A task as it enters an operation; pc names the await it is suspended at.
NewTask(op, pc, arg) ==
    [ op |-> op, pc |-> pc, arg |-> arg, i |-> 1, acquired |-> 0,
      prefix |-> <<>>, pending |-> None, sap |-> None, cmds |-> <<>>,
      result |-> "", at |-> "", held |-> FALSE ]

\* The operation returns result with cmds to its caller: the task is free.
Done(task, result, cmds) == IdleTask

\* Mutant: the guard taken for a vote is kept until the batch is done.
AfterVoteKeepGuard(lock, t) == lock

\* The end of the if-let statement of one vote drops its guard (line 133).
AfterVote(lock, t) == DropGuard(lock, t)

\* The loop goes on to the next vote, or the batch is done (lines 63, 136).
NextVote(task, cmds) ==
    IF task.i + 1 > Len(task.arg.signed_votes)
    THEN Done([task EXCEPT !.i = @ + 1], "Ok", cmds)
    ELSE [task EXCEPT !.i = @ + 1, !.pc = "engine", !.cmds = cmds, !.pending = None]

\* propose_membership_change is called (lines 22-30).
StartPropose(t, node_state) ==
    /\ tasks[t] = IdleTask
    /\ tasks' = [tasks EXCEPT ![t] = NewTask("propose", "prefix", [node_state |-> node_state])]
    /\ UNCHANGED <<membership, network_knowledge, call, engine_lock, knowledge_lock>>

\* handle_membership_votes is called (lines 50-59).
StartVotes(t, peer, signed_votes) ==
    /\ tasks[t] = IdleTask
    /\ tasks' = [tasks EXCEPT ![t] =
                   NewTask("votes", "prefix", [peer |-> peer, signed_votes |-> signed_votes])]
    /\ UNCHANGED <<membership, network_knowledge, call, engine_lock, knowledge_lock>>

\* handle_membership_anti_entropy is called (lines 139-151).
StartAntiEntropy(t, peer, gen) ==
    /\ tasks[t] = IdleTask
    /\ tasks' = [tasks EXCEPT ![t] =
                   NewTask("anti_entropy", "engine", [peer |-> peer, gen |-> gen])]
    /\ UNCHANGED <<membership, network_knowledge, call, engine_lock, knowledge_lock>>

\* network_knowledge.prefix().await (lines 30, 59); an empty batch then
\* returns at once (lines 61-63, 136).
ReadPrefix(t) ==
    /\ tasks[t].pc = "prefix"
    /\ CanRead(knowledge_lock)
    /\ LET task == [tasks[t] EXCEPT !.prefix = network_knowledge.prefix, !.pc = "engine"]
       IN  tasks' = [tasks EXCEPT ![t] =
                       IF task.op = "votes" /\ task.arg.signed_votes = <<>>
                       THEN Done(task, "Ok", <<>>)
                       ELSE task]
    /\ UNCHANGED <<membership, network_knowledge, call, engine_lock, knowledge_lock>>

\* membership.write().await completes in propose_membership_change and the
\* engine is asked to propose (lines 31-39, 44-47).
ProposeLocked(t) ==
    /\ tasks[t].op = "propose"
    /\ tasks[t].pc = "engine"
    /\ CanWrite(engine_lock)
    /\ LET task == [tasks[t] EXCEPT !.acquired = @ + 1]
           r == IF membership = None THEN [kind |-> "NoEngine", m |-> membership]
                ELSE Propose(membership, task.arg.node_state, task.prefix)
       IN  /\ membership' = r.m
           /\ CASE r.kind = "NoEngine" ->
                     /\ tasks' = [tasks EXCEPT ![t] =
                                    Done(task, ProposeWithoutMembership.result,
                                         ProposeWithoutMembership.cmds)]
                     /\ engine_lock' = engine_lock
                [] r.kind = "Err" ->
                     /\ tasks' = [tasks EXCEPT ![t] =
                                    Done(task, OnProposeError.result, OnProposeError.cmds)]
                     /\ engine_lock' = engine_lock
                [] OTHER ->
                     /\ tasks' = [tasks EXCEPT ![t] =
                                    [task EXCEPT !.pc = "send", !.pending = r.vote]]
                     /\ engine_lock' = WriteGuard(engine_lock, t)
    /\ UNCHANGED <<network_knowledge, call, knowledge_lock>>

\* send_msg_to_our_elders(..).await? completes in propose_membership_change;
\* the operation returns and the guard is dropped (lines 40-44).
ProposeSent(t, sent) ==
    /\ tasks[t].op = "propose"
    /\ tasks[t].pc = "send"
    /\ LET out == OnProposed(tasks[t].pending, sent)
       IN  tasks' = [tasks EXCEPT ![t] = Done(tasks[t], out.result, out.cmds)]
    /\ engine_lock' = DropGuard(engine_lock, t)
    /\ UNCHANGED <<membership, network_knowledge, call, knowledge_lock>>

\* membership.write().await completes for the next vote of the batch and the
\* engine is handed the vote (lines 64-66, 74-77, 95-99, 105-134).
VoteLocked(t) ==
    /\ tasks[t].op = "votes"
    /\ tasks[t].pc = "engine"
    /\ CanWrite(engine_lock)
    /\ LET task == [tasks[t] EXCEPT !.acquired = @ + 1]
           v == task.arg.signed_votes[task.i]
           locked == WriteGuard(engine_lock, t)
       IN  IF membership = None
           THEN LET step == VoteWithoutMembership(membership)
                IN  /\ membership' = membership
                    /\ engine_lock' = AfterVote(locked, t)
                    /\ tasks' = [tasks EXCEPT ![t] =
                                   IF step.next = "continue"
                                   THEN NextVote(task, task.cmds)
                                   ELSE Done(task, "Err", <<>>)]
           ELSE LET r == HandleSignedVote(membership, v, task.prefix)
                IN  /\ membership' = r.m
                    /\ CASE r.kind = "Broadcast" ->
                              /\ engine_lock' = locked
                              /\ tasks' = [tasks EXCEPT ![t] =
                                             [task EXCEPT !.pc = "send", !.pending = r.vote]]
                         [] r.kind = "WaitingForMoreVotes" ->
                              /\ engine_lock' = AfterVote(locked, t)
                              /\ tasks' = [tasks EXCEPT ![t] =
                                             NextVote(task, task.cmds
                                                        \o DecisionCmds(r.m, task.prefix))]
                         [] r.kind = "Err" /\ r.err = "RequestAntiEntropy" ->
                              /\ engine_lock' = locked
                              /\ tasks' = [tasks EXCEPT ![t] = [task EXCEPT !.pc = "sap"]]
                         [] OTHER ->
                              /\ engine_lock' = AfterVote(locked, t)
                              /\ tasks' = [tasks EXCEPT ![t] =
                                             IF OnOtherError = "break"
                                             THEN Done(task, "Ok", task.cmds)
                                             ELSE NextVote(task, task.cmds)]
    /\ UNCHANGED <<network_knowledge, call, knowledge_lock>>

\* send_msg_to_our_elders(..).await? completes for the response vote; the
\* decision is read and the guard of this vote is dropped (lines 67-73,
\* 105-134).
VoteSent(t, sent) ==
    /\ tasks[t].op = "votes"
    /\ tasks[t].pc = "send"
    /\ tasks' = [tasks EXCEPT ![t] =
                   IF sent
                   THEN NextVote(tasks[t],
                                 tasks[t].cmds \o <<OnBroadcast(tasks[t].pending)>>
                                   \o DecisionCmds(membership, tasks[t].prefix))
                   ELSE Done(tasks[t], "Err", <<>>)]
    /\ engine_lock' = AfterVote(engine_lock, t)
    /\ UNCHANGED <<membership, network_knowledge, call, knowledge_lock>>

\* network_knowledge.authority_provider().await completes (line 81).
ReadSap(t) ==
    /\ tasks[t].op = "votes"
    /\ tasks[t].pc = "sap"
    /\ CanRead(knowledge_lock)
    /\ tasks' = [tasks EXCEPT ![t] = [@ EXCEPT !.sap = network_knowledge.sap,
                                               !.pc = "send_ae"]]
    /\ UNCHANGED <<membership, network_knowledge, call, engine_lock, knowledge_lock>>

\* send_direct_msg_to_nodes(..).await? completes for the anti-entropy
\* request; the operation returns and the guard is dropped (lines 82-94).
RequestSent(t, sent) ==
    /\ tasks[t].op = "votes"
    /\ tasks[t].pc = "send_ae"
    /\ LET task == tasks[t]
           cmd == OnRequestAntiEntropy(membership, [sap |-> task.sap], task.prefix,
                                       task.arg.peer)
       IN  /\ tasks' = [tasks EXCEPT ![t] =
                          IF ~sent THEN Done(task, "Err", <<>>)
                          ELSE IF AfterAntiEntropyRequest = "return"
                          THEN Done(task, "Ok", Append(task.cmds, cmd))
                          ELSE NextVote(task, Append(task.cmds, cmd))]
           /\ engine_lock' = DropGuard(engine_lock, t)
    /\ UNCHANGED <<membership, network_knowledge, call, knowledge_lock>>

\* Mutant: the engine is taken exclusively and gives its pending votes away.
AntiEntropyLockedDrainsVotes(t, built) ==
    /\ tasks[t].op = "anti_entropy"
    /\ tasks[t].pc = "engine"
    /\ CanWrite(engine_lock)
    /\ LET task == [tasks[t] EXCEPT !.acquired = @ + 1]
       IN  IF membership = None
           THEN /\ tasks' = [tasks EXCEPT ![t] = Done(task, "Ok", <<>>)]
                /\ UNCHANGED <<membership, engine_lock>>
           ELSE /\ membership' =
                     [membership EXCEPT !.votes = [e \in 1..membership.elders |-> {}]]
                /\ tasks' = [tasks EXCEPT ![t] =
                               [ task EXCEPT
                                   !.pc = "section_key",
                                   !.pending =
                                     AntiEntropy(membership, task.arg.gen, TRUE).votes ]]
                /\ engine_lock' = ReadGuard(engine_lock, t)
    /\ UNCHANGED <<network_knowledge, call, knowledge_lock>>

\* membership.read().await completes and the engine is asked for the
\* catch-up votes (lines 151-153, 163-173).
AntiEntropyLocked(t, built) ==
    /\ tasks[t].op = "anti_entropy"
    /\ tasks[t].pc = "engine"
    /\ CanRead(engine_lock)
    /\ LET task == [tasks[t] EXCEPT !.acquired = @ + 1]
           r == IF membership = None THEN [kind |-> "NoEngine", votes |-> <<>>]
                ELSE AntiEntropy(membership, task.arg.gen, built)
       IN  CASE r.kind = "NoEngine" ->
                  /\ tasks' = [tasks EXCEPT ![t] =
                                 Done(task, AntiEntropyWithoutMembership.result,
                                      AntiEntropyWithoutMembership.cmds)]
                  /\ engine_lock' = engine_lock
             [] r.kind = "Err" ->
                  /\ tasks' = [tasks EXCEPT ![t] =
                                 Done(task, OnAntiEntropyError.result,
                                      OnAntiEntropyError.cmds)]
                  /\ engine_lock' = engine_lock
             [] OTHER ->
                  /\ tasks' = [tasks EXCEPT ![t] =
                                 [task EXCEPT !.pc = "section_key", !.pending = r.votes]]
                  /\ engine_lock' = ReadGuard(engine_lock, t)
    /\ UNCHANGED <<membership, network_knowledge, call, knowledge_lock>>

\* network_knowledge.section_key().await completes (line 158).
ReadSectionKey(t) ==
    /\ tasks[t].op = "anti_entropy"
    /\ tasks[t].pc = "section_key"
    /\ CanRead(knowledge_lock)
    /\ tasks' = [tasks EXCEPT ![t] = [@ EXCEPT !.sap = network_knowledge.section_key,
                                               !.pc = "send"]]
    /\ UNCHANGED <<membership, network_knowledge, call, engine_lock, knowledge_lock>>

\* send_direct_msg(..).await? completes; the operation returns and the
\* guard is dropped (lines 155-162, 173-175).
ReplySent(t, sent) ==
    /\ tasks[t].op = "anti_entropy"
    /\ tasks[t].pc = "send"
    /\ LET task == tasks[t]
           out == OnCatchupVotes(task.arg.peer, task.pending, task.sap, sent)
       IN  tasks' = [tasks EXCEPT ![t] = Done(task, out.result, out.cmds)]
    /\ engine_lock' = DropGuard(engine_lock, t)
    /\ UNCHANGED <<membership, network_knowledge, call, knowledge_lock>>

\* The awaits of the operations.
Suspended(task) == task.pc \in {"prefix", "engine", "send", "sap", "send_ae", "section_key"}

\* Mutant: a cancelled task keeps the guards it holds.
CancelledLockKeepGuard(lock, t) == lock

\* The future of a cancelled task is dropped, and with it its guards.
CancelledLock(lock, t) == DropGuard(lock, t)

\* The task running an operation is cancelled where it is suspended.
Cancel(t) ==
    /\ Suspended(tasks[t])
    /\ tasks' = [tasks EXCEPT ![t] =
                   [@ EXCEPT !.pc = "cancelled", !.at = tasks[t].pc,
                             !.held = HoldsEngineLock(t), !.pending = None]]
    /\ engine_lock' = CancelledLock(engine_lock, t)
    /\ UNCHANGED <<membership, network_knowledge, call, knowledge_lock>>

\* The cancelled task is gone.
Finish(t) ==
    /\ tasks[t].pc = "cancelled"
    /\ tasks' = [tasks EXCEPT ![t] = IdleTask]
    /\ UNCHANGED <<membership, network_knowledge, call, engine_lock, knowledge_lock>>

\* The key the section has after a change of its elders.
NextSectionKey(section_key) == IF section_key = "K0" THEN "K1" ELSE "K2"

\* The outer node starts to replace the view: it takes the view's lock.
UpdateKnowledgeBegin ==
    /\ CanWrite(knowledge_lock)
    /\ network_knowledge.section_key \in SectionKeys
    /\ knowledge_lock' = WriteGuard(knowledge_lock, MaxTasks + 1)
    /\ UNCHANGED <<membership, network_knowledge, call, tasks, engine_lock>>

\* The outer node publishes the section's new key and drops the lock.
UpdateKnowledgeEnd ==
    /\ knowledge_lock.writer # 0
    /\ LET k == NextSectionKey(network_knowledge.section_key)
       IN  network_knowledge' =
             [ network_knowledge EXCEPT !.section_key = k, !.sap.section_key = k ]
    /\ knowledge_lock' = Unlocked
    /\ UNCHANGED <<membership, call, tasks, engine_lock>>

\* The peer the messages come from while handlers run concurrently.
TaskPeers == {MaxElders}

\* The votes that peer sends: its own, for one proposal.
TaskVoteInputs ==
    { SignedVote(g, e, {NodeState(1, Joining)}) : g \in 1..(MaxGen + 1), e \in TaskPeers }

TaskBatchInputs == UNION {[1..k -> TaskVoteInputs] : k \in 0..MaxBatch}

TaskCreate ==
    /\ engine_lock = Unlocked
    /\ Create

\* The changes proposed while handlers run concurrently: a node joins, or leaves.
TaskNodeStates == {NodeState(1, Joining), NodeState(1, Left)}

TaskStartPropose ==
    \E t \in Tasks, node_state \in TaskNodeStates : StartPropose(t, node_state)

TaskStartVotes ==
    \E t \in Tasks, peer \in TaskPeers, signed_votes \in TaskBatchInputs :
      StartVotes(t, peer, signed_votes)

TaskStartAntiEntropy ==
    \E t \in Tasks, peer \in TaskPeers, gen \in 0..MaxGen : StartAntiEntropy(t, peer, gen)

TaskReadPrefix == \E t \in Tasks : ReadPrefix(t)

TaskProposeLocked == \E t \in Tasks : ProposeLocked(t)

TaskProposeSent == \E t \in Tasks, sent \in BOOLEAN : ProposeSent(t, sent)

TaskVoteLocked == \E t \in Tasks : VoteLocked(t) /\ Capped(MaxGen)'

TaskVoteSent == \E t \in Tasks, sent \in BOOLEAN : VoteSent(t, sent)

TaskReadSap == \E t \in Tasks : ReadSap(t)

TaskRequestSent == \E t \in Tasks, sent \in BOOLEAN : RequestSent(t, sent)

TaskAntiEntropyLocked == \E t \in Tasks, built \in BOOLEAN : AntiEntropyLocked(t, built)

TaskReadSectionKey == \E t \in Tasks : ReadSectionKey(t)

TaskReplySent == \E t \in Tasks, sent \in BOOLEAN : ReplySent(t, sent)

TaskCancel == \E t \in Tasks : Cancel(t)

TaskFinish == \E t \in Tasks : Finish(t)

TaskNext ==
    \/ TaskCreate
    \/ TaskStartPropose
    \/ TaskStartVotes
    \/ TaskStartAntiEntropy
    \/ TaskReadPrefix
    \/ TaskProposeLocked
    \/ TaskProposeSent
    \/ TaskVoteLocked
    \/ TaskVoteSent
    \/ TaskReadSap
    \/ TaskRequestSent
    \/ TaskAntiEntropyLocked
    \/ TaskReadSectionKey
    \/ TaskReplySent
    \/ TaskCancel
    \/ TaskFinish
    \/ UpdateKnowledgeBegin
    \/ UpdateKnowledgeEnd

\* The node serves the section of the first prefix.
TaskInit == Init /\ network_knowledge.prefix = <<0>>

TaskSpec == TaskInit /\ [][TaskNext]_vars

(***************************************************************************)
(* GetGroupKeyResponse::merge (messages/get_group_key_response.rs).        *)
(*                                                                         *)
(* A response is a target_id and a Vec of (name, key) pairs.  merge either *)
(* returns None, returns Some(response), or panics at one of its asserts.  *)
(***************************************************************************)
\* types::GROUP_SIZE.
GROUP_SIZE == 2

\* The number of (name, key) pairs the responses choose from.
MaxPairs == 3

\* The responses handed to merge: a self response of up to one pair more than
\* a group, peer responses of up to a group, one peer response for each
\* member of a group.
MaxSelfKeys == GROUP_SIZE + 1
MaxPeerKeys == GROUP_SIZE
MaxResponses == GROUP_SIZE

GetGroupKeyResponse(target_id, public_sign_keys) ==
    [target_id |-> target_id, public_sign_keys |-> public_sign_keys]

\* Ord of (DhtId, PublicSignKey): by name, then by key.
PairLess(a, b) == a[1] < b[1] \/ (a[1] = b[1] /\ a[2] < b[2])

\* frequency_count.iter_mut().find(|count| count.0 == *public_sign_key):
\* the index of the first entry for the pair, 0 when there is none.
Find(frequency_count, public_sign_key) ==
    IF \E j \in 1..Len(frequency_count) : frequency_count[j][1] = public_sign_key
    THEN CHOOSE j \in 1..Len(frequency_count) :
           /\ frequency_count[j][1] = public_sign_key
           /\ \A k \in 1..(j - 1) : frequency_count[k][1] # public_sign_key
    ELSE 0

\* One pair is counted: its entry is incremented, or pushed with count 1
\* (lines 48-54, 59-65).
CountKey(frequency_count, public_sign_key) ==
    LET j == Find(frequency_count, public_sign_key)
    IN  IF j # 0
        THEN [frequency_count EXCEPT ![j] = <<@[1], @[2] + 1>>]
        ELSE Append(frequency_count, <<public_sign_key, 1>>)

\* The pairs of one response are counted in their order (lines 47, 58).
RECURSIVE CountKeys(_, _)
CountKeys(frequency_count, public_sign_keys) ==
    IF public_sign_keys = <<>> THEN frequency_count
    ELSE CountKeys(CountKey(frequency_count, Head(public_sign_keys)),
                   Tail(public_sign_keys))

\* Mutant: the target of a peer response is not looked at.
TargetMismatchIgnored(other, self) == FALSE

\* other.target_id != self.target_id (line 57).
TargetMismatch(other, self) == other.target_id # self.target_id

\* The loop over the peer responses (lines 56-67): the counts, or the early
\* return of None.
RECURSIVE CountResponses(_, _, _)
CountResponses(frequency_count, self, get_group_key_responses) ==
    IF get_group_key_responses = <<>>
    THEN [kind |-> "Counted", frequency_count |-> frequency_count]
    ELSE LET other == Head(get_group_key_responses)
         IN  IF TargetMismatch(other, self) THEN [kind |-> "None"]
             ELSE CountResponses(CountKeys(frequency_count, other.public_sign_keys),
                                 self, Tail(get_group_key_responses))

\* One entry is put into a list sorted by descending count, behind the
\* entries that do not count less: sort_by is stable.
RECURSIVE Inserted(_, _)
Inserted(sorted, entry) ==
    IF sorted = <<>> THEN <<entry>>
    ELSE IF Head(sorted)[2] >= entry[2]
    THEN <<Head(sorted)>> \o Inserted(Tail(sorted), entry)
    ELSE <<entry>> \o sorted

\* Mutant: entries that count the same are put in the order of their pairs.
RECURSIVE SortByCountThenPair(_)
SortByCountThenPair(frequency_count) ==
    IF frequency_count = <<>> THEN <<>>
    ELSE LET first ==
               CHOOSE e \in {frequency_count[j] : j \in 1..Len(frequency_count)} :
                 \A j \in 1..Len(frequency_count) :
                   \/ frequency_count[j] = e
                   \/ frequency_count[j][2] < e[2]
                   \/ (frequency_count[j][2] = e[2] /\ PairLess(e[1], frequency_count[j][1]))
         IN  <<first>> \o SortByCountThenPair(SelectSeq(frequency_count,
                                                        LAMBDA x : x # first))

\* frequency_count.sort_by(|a, b| b.1.cmp(&a.1)) (line 69).
RECURSIVE SortByCount(_)
SortByCount(frequency_count) ==
    IF frequency_count = <<>> THEN <<>>
    ELSE Inserted(SortByCount(SubSeq(frequency_count, 1, Len(frequency_count) - 1)),
                  frequency_count[Len(frequency_count)])

\* assert!(public_sign_key.1 <= types::GROUP_SIZE as usize) (line 76).
CountAsserted(entry) == entry[2] <= GROUP_SIZE

\* The loop that fills merged_group from the sorted counts (lines 70-83):
\* the group, or the panic of the assert on the count.
RECURSIVE MergedGroup(_, _)
MergedGroup(merged_group, sorted) ==
    IF sorted = <<>> THEN [kind |-> "Group", merged_group |-> merged_group]
    ELSE IF Len(merged_group) < GROUP_SIZE
    THEN IF CountAsserted(Head(sorted))
         THEN MergedGroup(Append(merged_group, Head(sorted)[1]), Tail(sorted))
         ELSE [kind |-> "Panic", line |-> 76]
    ELSE [kind |-> "Group", merged_group |-> merged_group]

\* Mutant: a group of any size is returned.
GroupSizeAssertedNever(merged_group) == TRUE

\* assert_eq!(merged_group.len(), types::GROUP_SIZE as usize) (line 84).
GroupSizeAsserted(merged_group) == Len(merged_group) = GROUP_SIZE

\* GetGroupKeyResponse::merge (lines 44-90).
Merge(self, get_group_key_responses) ==
    LET own == CountKeys(<<>>, self.public_sign_keys)
        counted == CountResponses(own, self, get_group_key_responses)
    IN  IF counted.kind = "None" THEN [kind |-> "None"]
        ELSE LET group == MergedGroup(<<>>, SortByCount(counted.frequency_count))
             IN  IF group.kind = "Panic" THEN group
                 ELSE IF ~GroupSizeAsserted(group.merged_group)
                 THEN [kind |-> "Panic", line |-> 84]
                 ELSE [ kind |-> "Some",
                        value |-> GetGroupKeyResponse(self.target_id,
                                                      group.merged_group) ]

\* The (name, key) pairs the responses report: one key for each name.
MergePairs == {<<name, MaxPairs + 1 - name>> : name \in 1..MaxPairs}

KeyLists(max) == UNION {[1..k -> MergePairs] : k \in 0..max}

\* The result of a function that has not been applied yet.
NotApplied == [kind |-> "NotApplied"]

\* No handler runs while a function of a message or of a key is applied.
NoHandler ==
    /\ membership = None
    /\ network_knowledge = [ prefix |-> <<0>>, section_key |-> "K0",
                             sap |-> [prefix |-> <<0>>, section_key |-> "K0"] ]
    /\ tasks = [t \in Tasks |-> IdleTask]
    /\ engine_lock = Unlocked
    /\ knowledge_lock = Unlocked

\* merge is about to be called on a self response about the first target,
\* with peer responses about that target or about another one: short ones,
\* and copies of the self response.
MergeInit ==
    /\ NoHandler
    /\ \E self \in {GetGroupKeyResponse(1, keys) : keys \in KeyLists(MaxSelfKeys)} :
         LET peers == { GetGroupKeyResponse(t, keys) :
                          t \in {1, 2},
                          keys \in KeyLists(MaxPeerKeys) \cup {self.public_sign_keys} }
         IN  \E others \in UNION {[1..k -> peers] : k \in 0..MaxResponses} :
               call = [ op |-> "merge", self |-> self, others |-> others,
                        result |-> NotApplied ]

\* self.merge(&get_group_key_responses) runs.
MergeCall ==
    /\ call.op = "merge"
    /\ call.result = NotApplied
    /\ call' = [call EXCEPT !.result = Merge(call.self, call.others)]
    /\ UNCHANGED <<membership, network_knowledge, conc>>

MergeSpec == MergeInit /\ [][MergeCall]_vars

(***************************************************************************)
(* PublicKey (sn/src/types/keys/public_key.rs).                            *)
(*                                                                         *)
(* A key is a variant and the bytes of the underlying key.  Names are      *)
(* XOR_NAME_LEN bytes; an Ed25519 key is as long as a name, a BLS key is   *)
(* longer.                                                                 *)
(***************************************************************************)
\* xor_name::XOR_NAME_LEN, in bytes.
XOR_NAME_LEN == 2

\* The bytes that keys and names are made of.
ByteValues == {0, 1, 255}

\* enum PublicKey, in the order of its variants.
Variants == <<"Ed25519", "Bls", "BlsShare">>

\* The length of to_bytes() of the underlying key.
KeyLen(variant) == IF variant = "Ed25519" THEN XOR_NAME_LEN ELSE XOR_NAME_LEN + 1

PublicKeys ==
    UNION { {[variant |-> Variants[t], bytes |-> b] :
               b \in [1..KeyLen(Variants[t]) -> ByteValues]} : t \in 1..3 }

\* The messages that are signed.
Messages == {0, 1}

\* pub_key.verify(..) of the underlying algorithm.  A signature is its
\* variant, the key whose secret half made it, and the message it was made
\* for: it verifies for this message under this key.
AlgorithmCheck(public_key, signature, data) ==
    signature.signer = public_key.bytes /\ signature.msg = data

\* Mutant: the two BLS variants are taken for one.
MatchArmByCurve(public_key, signature) ==
    (public_key.variant = "Ed25519") = (signature.variant = "Ed25519")

\* One of the three arms of the match on (self, signature) is taken.
MatchArm(public_key, signature) == public_key.variant = signature.variant

\* PublicKey::verify.
Verify(public_key, signature, data) ==
    IF ~MatchArm(public_key, signature)
    THEN [kind |-> "Err", error |-> "SigningKeyTypeMismatch"]
    ELSE IF AlgorithmCheck(public_key, signature, data)
    THEN [kind |-> "Ok"]
    ELSE [kind |-> "Err", error |-> "InvalidSignature"]

\* The numbers of a sequence written as bits, width bits each, most
\* significant bit first.
RECURSIVE ToBits(_, _)
ToBits(values, width) ==
    IF values = <<>> THEN <<>>
    ELSE [i \in 1..width |-> (Head(values) \div (2 ^ (width - i))) % 2]
         \o ToBits(Tail(values), width)

\* The numbers that the full groups of width bits spell.
RECURSIVE FromBits(_, _)
FromBits(bits, width) ==
    IF Len(bits) < width THEN <<>>
    ELSE LET RECURSIVE Value(_)
             Value(b) == IF b = <<>> THEN 0
                         ELSE 2 * Value(SubSeq(b, 1, Len(b) - 1)) + b[Len(b)]
         IN  <<Value(SubSeq(bits, 1, width))>>
             \o FromBits(SubSeq(bits, width + 1, Len(bits)), width)

\* The z-base-32 alphabet.
Alphabet ==
    << "y", "b", "n", "d", "r", "f", "g", "8", "e", "j", "k", "m", "c", "p", "q", "x",
       "o", "t", "1", "u", "w", "i", "s", "z", "a", "3", "4", "5", "h", "7", "6", "9" >>

\* z-base-32 of bytes: the bits, filled up with zeros to groups of five, one
\* character for each group.
ZBase32Encode(bytes) ==
    LET bits == ToBits(bytes, 8)
        fill == (5 - (Len(bits) % 5)) % 5
        quintets == FromBits(bits \o [i \in 1..fill |-> 0], 5)
    IN  [i \in 1..Len(quintets) |-> Alphabet[quintets[i] + 1]]

\* The bytes of a z-base-32 string: the bits of its characters, the bits
\* behind the last full byte dropped.
ZBase32Decode(encoded) ==
    LET quintets == [i \in 1..Len(encoded) |->
                       (CHOOSE j \in 1..32 : Alphabet[j] = encoded[i]) - 1]
    IN  FromBits(ToBits(quintets, 5), 8)

\* Mutant: the variant is not written.
SerialiseUntagged(public_key) == <<0>> \o public_key.bytes

\* utils::serialise of a key: the index of the variant, then the bytes.
Serialise(public_key) ==
    <<(CHOOSE t \in 1..3 : Variants[t] = public_key.variant) - 1>> \o public_key.bytes

\* utils::deserialise of a key.
Deserialise(bytes) ==
    IF bytes = <<>> \/ Head(bytes) \notin 0..2
    THEN [kind |-> "Err"]
    ELSE LET variant == Variants[Head(bytes) + 1]
         IN  IF Len(Tail(bytes)) # KeyLen(variant) THEN [kind |-> "Err"]
             ELSE [kind |-> "Ok", value |-> [variant |-> variant, bytes |-> Tail(bytes)]]

\* PublicKey::encode_to_zbase32.
EncodeToZbase32(public_key) == ZBase32Encode(Serialise(public_key))

\* PublicKey::decode_from_zbase32.
DecodeFromZbase32(encoded) == Deserialise(ZBase32Decode(encoded))

\* Mutant: the last byte of the destination is left as it was.
CloneFromSliceButLast(dst, src) ==
    [i \in 1..Len(dst) |-> IF i < Len(dst) THEN src[i] ELSE dst[i]]

\* xor_name.0.clone_from_slice(src): every byte of dst is overwritten.
CloneFromSlice(dst, src) == [i \in 1..Len(dst) |-> src[i]]

\* impl From<PublicKey> for XorName; random is what xor_name::rand::random()
\* gives.
XorNameFrom(public_key, random) ==
    IF public_key.variant = "Ed25519" THEN public_key.bytes
    ELSE CloneFromSlice(random, SubSeq(public_key.bytes, 1, XOR_NAME_LEN))

\* A call on a key is about to be made: a verification, the encodings of a
\* key, or two conversions of a key to a name.
KeyInit ==
    /\ NoHandler
    /\ \E k \in PublicKeys :
         \/ \E signer \in PublicKeys, m, d \in Messages :
              call = [ op |-> "verify", public_key |-> k,
                       signature |-> [ variant |-> signer.variant,
                                       signer |-> signer.bytes, msg |-> m ],
                       data |-> d, result |-> NotApplied ]
         \/ call = [op |-> "encode", public_key |-> k, result |-> NotApplied]
         \/ \E r \in [1..2 -> [1..XOR_NAME_LEN -> ByteValues]] :
              call = [ op |-> "name", public_key |-> k, random |-> r,
                       result |-> NotApplied ]

\* public_key.verify(&signature, data) runs.
VerifyCall ==
    /\ call.op = "verify"
    /\ call.result = NotApplied
    /\ call' = [call EXCEPT
                  !.result = Verify(call.public_key, call.signature, call.data)]
    /\ UNCHANGED <<membership, network_knowledge, conc>>

\* The key is serialised and encoded, and both are read back.
EncodeCall ==
    /\ call.op = "encode"
    /\ call.result = NotApplied
    /\ call' = [call EXCEPT
                  !.result =
                     [ kind |-> "Encoded",
                       serialised |-> Serialise(call.public_key),
                       deserialised |-> Deserialise(Serialise(call.public_key)),
                       encoded |-> EncodeToZbase32(call.public_key),
                       decoded |-> DecodeFromZbase32(EncodeToZbase32(call.public_key)) ]]
    /\ UNCHANGED <<membership, network_knowledge, conc>>

\* The key is converted to a name twice, each conversion with its own
\* random start.
NameCall ==
    /\ call.op = "name"
    /\ call.result = NotApplied
    /\ call' = [call EXCEPT
                  !.result =
                     [ kind |-> "Names",
                       names |-> [n \in 1..2 |->
                                    XorNameFrom(call.public_key, call.random[n])] ]]
    /\ UNCHANGED <<membership, network_knowledge, conc>>

KeySpec == KeyInit /\ [][VerifyCall \/ EncodeCall \/ NameCall]_vars

(***************************************************************************)
(* RoutingNode::run (routing_node.rs).                                     *)
(*                                                                         *)
(* run handles the events of the crust connection manager one at a time    *)
(* until it leaves the loop or returns.  Each action is the handling of    *)
(* one event, with the code after the loop when the event leaves the loop. *)
(* try! returns the error of a message that cannot be built or encoded;    *)
(* whether it can is an input of the event (built).  call.sent lists the   *)
(* calls of cm.send, call.dropped those of cm.drop_node.                   *)
(***************************************************************************)
\* The endpoints crust reports events for; a node's name is a number too.
MaxEndpoints == 2

\* The calls of drop_node a run is followed for.
MaxDropped == 2

\* decode::<T>(&bytes): bytes are given by what they are the encoding of.
Decode(type, bytes) ==
    IF bytes.type = type THEN [kind |-> "Ok", value |-> bytes] ELSE [kind |-> "Err"]

\* The node and the locals of run before the loop.
RunInit ==
    /\ NoHandler
    /\ call = [ op |-> "run", bootstrap |-> None, bootstraps |-> {},
                sent_name_request |-> FALSE, relocated_name |-> None,
                sent |-> <<>>, dropped |-> <<>>, membrane |-> FALSE,
                event |-> None, result |-> "Running" ]

\* The code after the loop: the bootstrap connection is verified, FindGroup
\* is sent through it and the membrane is started.
AfterLoop(run, relocated_name, built) ==
    LET left == [run EXCEPT !.relocated_name = relocated_name]
        Membrane(r) ==
            IF r.relocated_name # None
            THEN [r EXCEPT !.membrane = TRUE, !.result = "Ok"]
            ELSE [r EXCEPT !.result = "FailedToBootstrap"]
    IN  IF run.bootstraps # {}
        THEN IF run.bootstrap # None /\ run.bootstrap.value.name # None
             THEN IF built
                  THEN Membrane([left EXCEPT !.sent =
                                   Append(@, [ endpoint |-> run.bootstrap.value.endpoint,
                                               msg |-> [ kind |-> "FindGroup",
                                                         relay |-> run.bootstrap.value.name.value ] ])])
                  ELSE [left EXCEPT !.result = "CborError"]
             ELSE [left EXCEPT !.result = "FailedToBootstrap"]
        ELSE Membrane(left)

\* event_input.recv() fails.
ChannelClosed ==
    /\ call.op = "run"
    /\ call.result = "Running"
    /\ call' = [call EXCEPT !.event = [kind |-> "Closed"],
                            !.result = "FailedToBootstrap"]
    /\ UNCHANGED <<membership, network_knowledge, tasks, engine_lock, knowledge_lock>>

\* Event::NewMessage(endpoint, bytes).
NewMessage(endpoint, bytes, built) ==
    LET event == [kind |-> "NewMessage", endpoint |-> endpoint, bytes |-> bytes,
                  built |-> built]
        run == [call EXCEPT !.event = event]
        signed == Decode("SignedMessage", bytes)
        he_is == Decode("IAm", bytes)
    IN  /\ call.op = "run"
        /\ call.result = "Running"
        /\ call' =
             IF endpoint \notin run.bootstraps THEN run
             ELSE IF signed.kind = "Ok"
             THEN IF signed.value.routing_message = "PutPublicIdResponse"
                  THEN AfterLoop(run, [kind |-> "Some", value |-> "relocated"], built)
                  ELSE run
             ELSE IF he_is.kind = "Ok" /\ he_is.value.address.kind = "Node"
             THEN LET node_name == he_is.value.address.name
                      named == [run EXCEPT !.bootstrap =
                                  [ kind |-> "Some",
                                    value |-> [ endpoint |-> endpoint,
                                                name |-> [ kind |-> "Some",
                                                           value |-> node_name ] ] ]]
                  IN  IF named.sent_name_request THEN named
                      ELSE IF ~built THEN [named EXCEPT !.result = "CborError"]
                      ELSE [ named EXCEPT
                               !.sent = Append(@, [ endpoint |-> endpoint,
                                                    msg |-> [ kind |-> "PutPublicId",
                                                              relay |-> node_name ] ]),
                               !.sent_name_request = TRUE ]
             ELSE run
        /\ UNCHANGED <<membership, network_knowledge, tasks, engine_lock, knowledge_lock>>

\* Mutant: a connection always makes the node the first node.
NewConnectionAlwaysFirst(endpoint) ==
    /\ call.op = "run"
    /\ call.result = "Running"
    /\ call' = AfterLoop([call EXCEPT !.event = [ kind |-> "NewConnection",
                                                 endpoint |-> endpoint ]],
                         [kind |-> "Some", value |-> "hashed"], TRUE)
    /\ UNCHANGED <<membership, network_knowledge, tasks, engine_lock, knowledge_lock>>

\* Event::NewConnection(endpoint).
NewConnection(endpoint) ==
    LET run == [call EXCEPT !.event = [kind |-> "NewConnection", endpoint |-> endpoint]]
    IN  /\ call.op = "run"
        /\ call.result = "Running"
        /\ Len(call.dropped) < MaxDropped \/ call.bootstraps = {}
        /\ call' = IF run.bootstraps = {}
                   THEN AfterLoop(run, [kind |-> "Some", value |-> "hashed"], TRUE)
                   ELSE [run EXCEPT !.dropped = Append(@, endpoint)]
        /\ UNCHANGED <<membership, network_knowledge, tasks, engine_lock, knowledge_lock>>

\* Event::LostConnection(endpoint).
LostConnection(endpoint) ==
    /\ call.op = "run"
    /\ call.result = "Running"
    /\ call' = [call EXCEPT !.event = [kind |-> "LostConnection", endpoint |-> endpoint]]
    /\ UNCHANGED <<membership, network_knowledge, tasks, engine_lock, knowledge_lock>>

\* Event::NewBootstrapConnection(endpoint).
NewBootstrapConnection(endpoint, built) ==
    LET event == [kind |-> "NewBootstrapConnection", endpoint |-> endpoint,
                  built |-> built]
        run == [call EXCEPT !.event = event]
    IN  /\ call.op = "run"
        /\ call.result = "Running"
        /\ call' =
             IF endpoint \in run.bootstraps THEN run
             ELSE LET registered ==
                        [run EXCEPT !.bootstrap =
                                      [ kind |-> "Some",
                                        value |-> [endpoint |-> endpoint, name |-> None] ],
                                    !.bootstraps = @ \cup {endpoint}]
                  IN  IF built
                      THEN [registered EXCEPT !.sent =
                              Append(@, [ endpoint |-> endpoint,
                                          msg |-> [ kind |-> "IAm",
                                                    address |-> [kind |-> "Client"] ] ])]
                      ELSE [registered EXCEPT !.result = "CborError"]
        /\ UNCHANGED <<membership, network_knowledge, tasks, engine_lock, knowledge_lock>>

\* The events of a run: messages that are garbage, a SignedMessage (without
\* a routing message, a PutPublicIdResponse, another one) or an IAm (of a
\* client, of a node), and the connection events, for every endpoint.
RunSpec ==
    RunInit /\ [][ \/ ChannelClosed
                   \/ \E endpoint \in 1..MaxEndpoints, built \in BOOLEAN :
                        \E bytes \in
                             {[type |-> "Garbage"]}
                             \cup {[type |-> "SignedMessage", routing_message |-> m] :
                                     m \in {"Err", "PutPublicIdResponse", "Other"}}
                             \cup {[type |-> "IAm", address |-> [kind |-> "Client"]]}
                             \cup {[type |-> "IAm",
                                    address |-> [kind |-> "Node", name |-> n]] :
                                     n \in 1..MaxEndpoints} :
                          NewMessage(endpoint, bytes, built)
                   \/ \E endpoint \in 1..MaxEndpoints : NewConnection(endpoint)
                   \/ \E endpoint \in 1..MaxEndpoints : LostConnection(endpoint)
                   \/ \E endpoint \in 1..MaxEndpoints, built \in BOOLEAN :
                        NewBootstrapConnection(endpoint, built) ]_vars

(***************************************************************************)
(* Two elders of one section exchange membership messages.                 *)
(*                                                                         *)
(* call.engines holds the engine of each elder and call.inbox the commands *)
(* the other elder's handler returned for it and that are not handled yet. *)
(* Messages are delivered in any order.  A broadcast can be lost; a direct *)
(* message (an anti-entropy request, its reply) is not.  The send helpers  *)
(* succeed.  Each elder is voter 1 of its own engine and the other elder   *)
(* is voter 2.                                                             *)
(***************************************************************************)
\* The votes of a message as the receiving elder numbers their voters.
FromPeer(signed_votes) ==
    [i \in 1..Len(signed_votes) |-> [signed_votes[i] EXCEPT !.voter = 3 - @]]

\* Both elders have their engine and nothing is in flight.
CatchupInit ==
    /\ NoHandler
    /\ call = [ op |-> "catchup",
                engines |-> [e \in 1..2 |-> NewMembership(2, network_knowledge.section_key)],
                inbox |-> [e \in 1..2 |-> {}] ]

\* Elder e proposes a change in a generation it has not voted in yet, and
\* its vote goes to the other elder (propose_membership_change).
ElderProposed(e, node_state) ==
    LET m == call.engines[e]
        r == Propose(m, node_state, network_knowledge.prefix)
        cmds == OnProposed(r.vote, TRUE).cmds
    IN  /\ call.op = "catchup"
        /\ Generation(m) <= MaxGen
        /\ m.votes[Us] = {}
        /\ r.kind = "Ok"
        /\ call' = [call EXCEPT
                      !.engines[e] = r.m,
                      !.inbox[3 - e] = @ \cup {cmds[i] : i \in DOMAIN cmds}]
        /\ UNCHANGED <<membership, network_knowledge, tasks, engine_lock, knowledge_lock>>

\* Elder e handles a message of the other elder: a MembershipVotes by
\* handle_membership_votes, a MembershipAE by handle_membership_anti_entropy.
\* The messages among the returned commands go to the other elder.
Handled(e, cmd) ==
    /\ call.op = "catchup"
    /\ cmd \in call.inbox[e]
    /\ \E r \in { IF cmd.msg.type = "MembershipVotes"
                   THEN VotesLoop(call.engines[e], network_knowledge,
                                  network_knowledge.prefix, 2, FromPeer(cmd.msg.votes),
                                  [i \in 1..Len(cmd.msg.votes) |-> TRUE], 1, <<>>, <<>>)
                   ELSE [ m |-> call.engines[e],
                          cmds |-> OnCatchupVotes(
                                       2, AntiEntropy(call.engines[e], cmd.msg.gen, TRUE).votes,
                                       network_knowledge.section_key, TRUE).cmds ] } :
         \E msgs \in {{c \in {r.cmds[i] : i \in DOMAIN r.cmds} :
                          c.cmd \in {"SendMsgToOurElders", "SendDirectMsgToNodes",
                                     "SendDirectMsg"}}} :
           call' = [call EXCEPT
                      !.engines[e] = r.m,
                      !.inbox = [f \in 1..2 |->
                                   IF f = e THEN call.inbox[e] \ {cmd}
                                   ELSE call.inbox[f] \cup msgs]]
    /\ UNCHANGED <<membership, network_knowledge, tasks, engine_lock, knowledge_lock>>

\* A broadcast to elder e is lost.
Lost(e, cmd) ==
    /\ call.op = "catchup"
    /\ cmd \in call.inbox[e]
    /\ cmd.cmd = "SendMsgToOurElders"
    /\ call' = [call EXCEPT !.inbox[e] = @ \ {cmd}]
    /\ UNCHANGED <<membership, network_knowledge, tasks, engine_lock, knowledge_lock>>

\* An elder goes on handling the messages in its inbox: weak fairness of
\* its handling step, which is enabled exactly when its inbox is not empty
\* (the condition is written out, WF_vars(A) being []<>~ENABLED <<A>>_vars
\* \/ []<><<A>>_vars).
CatchupSpec ==
    /\ CatchupInit
    /\ [][ \/ \E e \in 1..2, node_state \in TaskNodeStates : ElderProposed(e, node_state)
           \/ \E e \in 1..2 : \E cmd \in call.inbox[e] : Handled(e, cmd)
           \/ \E e \in 1..2 : \E cmd \in call.inbox[e] : Lost(e, cmd) ]_vars
    /\ \A e \in 1..2 :
         \/ []<>(call.inbox[e] = {})
         \/ []<><<\E cmd \in call.inbox[e] : Handled(e, cmd)>>_vars

(***************************************************************************)
(* Properties of the membership message handler.                           *)
(***************************************************************************)
VotesDone == call.op = "votes"

\* The first k votes of the batch of the call at hand.
Earlier(k) == SubSeq(call.signed_votes, 1, k)

\* What handle_membership_votes returns, from the engine the call started
\* with, for the given votes when every send helper returns Ok.
Returned(votes) ==
    VotesLoop(call.pre, network_knowledge, network_knowledge.prefix, call.peer,
              votes, [i \in 1..Len(votes) |-> TRUE], 1, <<>>, <<>>)

CountCmds(cmds, kinds) == Cardinality({j \in 1..Len(cmds) : cmds[j].cmd \in kinds})

\* C1: when handle_signed_vote returns RequestAntiEntropy for vote i of a
\* batch (and the request is built), that vote is the last one handed to the
\* engine, the returned commands are those of the earlier votes followed by
\* one SendDirectMsgToNodes([peer], MembershipAE(g)) with peer the sender of
\* the batch and g the engine's generation, and that is the only such command.
C1_AntiEntropyRequestEndsBatch ==
    VotesDone =>
      \A i \in 1..Len(call.log) :
        (call.log[i].err = "RequestAntiEntropy" /\ call.result = "Ok") =>
          LET earlier == Returned(Earlier(i - 1))
              request ==
                [ cmd |-> "SendDirectMsgToNodes",
                  recipients |-> <<call.peer>>,
                  msg |-> [type |-> "MembershipAE", gen |-> membership.gen],
                  section_name |-> PrefixName(network_knowledge.prefix),
                  dst_section_pk |-> network_knowledge.sap.section_key ]
          IN  /\ Len(call.log) = i
              /\ membership = earlier.m
              /\ call.cmds = earlier.cmds \o <<request>>
              /\ CountCmds(call.cmds, {"SendDirectMsgToNodes"}) = 1

\* C1 witness: a batch of two votes from another peer whose first vote made
\* the engine, at a generation above 0, ask for anti-entropy.
C1_Witness ==
    /\ VotesDone
    /\ call.result = "Ok"
    /\ Len(call.signed_votes) = 2
    /\ Len(call.log) = 1
    /\ call.log[1].err = "RequestAntiEntropy"
    /\ call.peer # Us
    /\ membership.gen > 0

\* C2: when handle_signed_vote returns another error for vote i of a batch,
\* no later vote is handed to the engine, nothing is emitted for vote i, and
\* the call returns Ok with the commands of the earlier votes.
C2_OtherErrorDropsRest ==
    VotesDone =>
      \A i \in 1..Len(call.log) :
        (call.log[i].resp = "Err" /\ call.log[i].err # "RequestAntiEntropy") =>
          LET earlier == Returned(Earlier(i - 1))
          IN  /\ Len(call.log) = i
              /\ call.log[i].emitted = <<>>
              /\ membership = earlier.m
              /\ call.result = "Ok"
              /\ call.cmds = earlier.cmds

\* C2 witness: the first vote of a batch of two was refused by the engine.
C2_Witness ==
    /\ VotesDone
    /\ Len(call.signed_votes) = 2
    /\ Len(call.log) = 1
    /\ call.log[1].err = "InvalidVote"
    /\ call.result = "Ok"

IsDecisionCmd(c) == c.cmd \in {"HandleNodeLeft", "HandleNewNodeOnline"}

\* C3: after a vote the handler handled successfully, the commands it pushed
\* hold, for each (state, signature) entry of the engine's most recent
\* decision, exactly one decision command: HandleNodeLeft when
\* is_leaving_section(state, prefix), HandleNewNodeOnline otherwise, carrying
\* the state and KeyedSig(voters_public_key_set().public_key(), signature);
\* and no other decision command.
C3_DecisionCommands ==
    VotesDone =>
      \A i \in 1..Len(call.log) :
        (call.log[i].next = "continue" /\ call.log[i].resp # "NoEngine") =>
          LET decision == call.log[i].decision
              pushed == SelectSeq(call.log[i].emitted, IsDecisionCmd)
              entries == IF decision = None THEN {} ELSE DOMAIN decision.proposals
          IN  /\ Len(pushed) = Cardinality(entries)
              /\ \A state \in entries :
                   \E j \in 1..Len(pushed) :
                     /\ pushed[j].auth.value = state
                     /\ \A k \in 1..Len(pushed) : pushed[k].auth.value = state => k = j
                     /\ pushed[j].cmd =
                          IF IsLeavingSection(state, network_knowledge.prefix)
                          THEN "HandleNodeLeft" ELSE "HandleNewNodeOnline"
                     /\ pushed[j].auth.sig =
                          [ public_key |-> PublicKeyOf(VotersPublicKeySet(membership)),
                            signature |-> decision.proposals[state] ]

\* C3 witness: a vote decided two proposals, one staying and one leaving.
C3_Witness ==
    /\ VotesDone
    /\ \E i \in 1..Len(call.log) :
         /\ call.log[i].next = "continue"
         /\ CountCmds(call.log[i].emitted, {"HandleNodeLeft"}) = 1
         /\ CountCmds(call.log[i].emitted, {"HandleNewNodeOnline"}) = 1

ProposeDone == call.op = "propose"

AntiEntropyDone == call.op = "anti_entropy"

\* What the engine the call started with answers to propose(node_state, prefix).
Proposed == Propose(call.pre, call.node_state, network_knowledge.prefix)

\* C4: with an engine whose propose succeeds, propose_membership_change
\* returns (once the broadcast is built) exactly one command, the
\* SendMsgToOurElders of MembershipVotes holding the one vote propose returned.
C4_ProposeBroadcastsOneVote ==
    (ProposeDone /\ call.pre # None /\ call.result = "Ok") =>
      (Proposed.kind = "Ok" =>
         /\ Len(call.cmds) = 1
         /\ call.cmds[1] =
              [ cmd |-> "SendMsgToOurElders",
                msg |-> [type |-> "MembershipVotes", votes |-> <<Proposed.vote>>] ]
         /\ CountCmds(call.cmds, {"HandleNodeLeft", "HandleNewNodeOnline"}) = 0)

\* C4 witness: a second proposal was added to our ballot and broadcast.
C4_Witness ==
    /\ ProposeDone
    /\ call.pre # None
    /\ Proposed.kind = "Ok"
    /\ call.result = "Ok"
    /\ Cardinality(Proposed.vote.ballot) = 2

\* C5: when the engine's propose returns an error, propose_membership_change
\* returns Ok with no command.
C5_ProposeErrorIsAbsorbed ==
    (ProposeDone /\ call.pre # None) =>
      (Proposed.kind = "Err" => call.result = "Ok" /\ call.cmds = <<>>)

\* C5 witness: a proposal conflicting with a pending one was refused.
C5_Witness ==
    /\ ProposeDone
    /\ call.pre # None
    /\ Proposed.kind = "Err"
    /\ membership = call.pre

\* C6: without an engine each entry point returns Ok with no command and
\* leaves the engine slot absent.
C6_NoEngineYet ==
    (call # Idle /\ call.pre = None) =>
      /\ call.result = "Ok"
      /\ call.cmds = <<>>
      /\ membership = None

\* C6 witness: a batch of two votes arrived before the engine existed.
C6_Witness ==
    /\ VotesDone
    /\ call.pre = None
    /\ Len(call.signed_votes) = 2
    /\ Len(call.log) = 2

\* The votes anti_entropy(gen) of the engine the call started with holds.
CaughtUp == AntiEntropy(call.pre, call.gen, TRUE).votes

\* C7: when anti_entropy succeeds with a non-empty list, the handler returns
\* (once the reply is built) exactly one SendDirectMsg to the requesting peer
\* with MembershipVotes of that list, in order, and the current section key;
\* when anti_entropy fails, it returns Ok with no command.
C7_AntiEntropyReply ==
    (AntiEntropyDone /\ call.pre # None) =>
      /\ (call.engine = "Ok" /\ CaughtUp # <<>> /\ call.result = "Ok") =>
           call.cmds =
             << [ cmd |-> "SendDirectMsg",
                  recipient |-> call.peer,
                  msg |-> [type |-> "MembershipVotes", votes |-> CaughtUp],
                  section_pk |-> network_knowledge.section_key ] >>
      /\ call.engine = "Err" => (call.result = "Ok" /\ call.cmds = <<>>)

\* C7 witness: a reply with the two votes of a decided generation.
C7_Witness ==
    /\ AntiEntropyDone
    /\ call.pre # None
    /\ call.engine = "Ok"
    /\ call.result = "Ok"
    /\ Len(CaughtUp) = 2
    /\ CaughtUp[1] # CaughtUp[2]

\* C8, as claimed: when anti_entropy succeeds with an empty list the handler
\* emits no command.  The handler replies whatever the list holds.
C8_NoReplyWhenCurrent ==
    (AntiEntropyDone /\ call.pre # None /\ call.result = "Ok") =>
      ((call.engine = "Ok" /\ CaughtUp = <<>>) => call.cmds = <<>>)

\* The vote propose returns for a lone proposal of node_state by engine m.
FirstVote(m, node_state) == [gen |-> m.gen + 1, voter |-> Us, ballot |-> {node_state}]

\* C9: in a section with a single elder, proposing a Joining node state to
\* an engine with nothing pending returns exactly one
\* SendMsgToOurElders(MembershipVotes([v1])) and leaves v1 pending; and
\* handle_membership_votes(self, [v1]) on the engine holding that pending
\* vote returns exactly one command, the HandleNewNodeOnline of that node
\* state signed under the voters' key, and no broadcast.
C9_SingleElderProposeAndDecide ==
    /\ ( /\ ProposeDone
         /\ call.pre # None
         /\ call.result = "Ok" ) =>
         ( ( /\ call.pre.elders = 1
             /\ call.pre.votes[Us] = {}
             /\ call.node_state.state.tag = "Joining" ) =>
             /\ call.cmds =
                  << [ cmd |-> "SendMsgToOurElders",
                       msg |-> [ type |-> "MembershipVotes",
                                 votes |-> <<FirstVote(call.pre, call.node_state)>> ] ] >>
             /\ membership = [call.pre EXCEPT !.votes[Us] = {call.node_state}] )
    /\ ( /\ VotesDone
         /\ call.pre # None
         /\ call.result = "Ok" ) =>
         \A node_state \in NodeStates :
           ( /\ call.pre.elders = 1
             /\ node_state.state.tag = "Joining"
             /\ call.pre.votes[Us] = {node_state}
             /\ call.peer = Us
             /\ call.signed_votes = <<FirstVote(call.pre, node_state)>> ) =>
             /\ call.cmds =
                  << [ cmd |-> "HandleNewNodeOnline",
                       auth |->
                         [ value |-> node_state,
                           sig |->
                             [ public_key |-> call.pre.pk_set.master,
                               signature |->
                                 membership.decision.proposals[node_state] ] ] ] >>
             /\ membership.decision.gen = call.pre.gen + 1
             /\ DOMAIN membership.decision.proposals = {node_state}
             /\ CountCmds(call.cmds, {"SendMsgToOurElders"}) = 0

\* C9 witness: the single elder was fed its own first vote back.
C9_Witness ==
    /\ VotesDone
    /\ call.pre # None
    /\ call.result = "Ok"
    /\ call.pre.elders = 1
    /\ call.peer = Us
    /\ \E node_state \in NodeStates :
         /\ node_state.state.tag = "Joining"
         /\ call.pre.votes[Us] = {node_state}
         /\ call.signed_votes = <<FirstVote(call.pre, node_state)>>

EngineBefore(i) == Returned(Earlier(i - 1)).m

\* A vote of a voter of the section for a generation beyond the one the
\* engine is voting on (the one after its own).
Ahead(m, v) == m # None /\ v.voter \in 1..m.elders /\ v.gen > Generation(m) + 1

\* C11: when a vote of a batch is of a generation ahead of the engine's (beyond
\* the generation being voted), handle_signed_vote returns RequestAntiEntropy
\* for it, and the handler (once the request is built) ends its commands with
\* a SendDirectMsgToNodes to the sender of the batch carrying MembershipAE of
\* the engine's generation, which is lower than the vote's.
C11_AheadVoteRequestsAntiEntropy ==
    VotesDone =>
      \A i \in 1..Len(call.log) :
        Ahead(EngineBefore(i), call.signed_votes[i]) =>
          /\ call.log[i].err = "RequestAntiEntropy"
          /\ call.result = "Ok" =>
               /\ call.cmds # <<>>
               /\ LET request == call.cmds[Len(call.cmds)]
                  IN  /\ request.cmd = "SendDirectMsgToNodes"
                      /\ request.recipients = <<call.peer>>
                      /\ request.msg =
                           [type |-> "MembershipAE", gen |-> Generation(EngineBefore(i))]
                      /\ request.msg.gen < call.signed_votes[i].gen

\* C11 witness: the second vote of a batch from another peer was ahead of the
\* engine, after a first vote the engine accepted.
C11_Witness ==
    /\ VotesDone
    /\ call.result = "Ok"
    /\ call.peer # Us
    /\ Len(call.log) = 2
    /\ call.log[1].resp \in {"Broadcast", "WaitingForMoreVotes"}
    /\ Ahead(EngineBefore(2), call.signed_votes[2])

\* What the engine's answer r to one vote adds to the commands: the
\* broadcast of the response vote, if any, then the decision commands.
CmdsOfVote(r, prefix) ==
    ( IF r.kind = "Broadcast"
      THEN << [ cmd |-> "SendMsgToOurElders",
                msg |-> [type |-> "MembershipVotes", votes |-> <<r.vote>>] ] >>
      ELSE <<>> )
      \o DecisionCmds(r.m, prefix)

\* The commands of the votes handed one after the other, in their order, to
\* engine m, for as long as the engine accepts them.
RECURSIVE CmdsInArrivalOrder(_, _, _)
CmdsInArrivalOrder(m, votes, prefix) ==
    IF votes = <<>> THEN <<>>
    ELSE LET r == HandleSignedVote(m, Head(votes), prefix)
         IN  IF r.kind = "Err" THEN <<>>
             ELSE CmdsOfVote(r, prefix) \o CmdsInArrivalOrder(r.m, Tail(votes), prefix)

\* C15: the votes of a batch are handed to the engine in their arrival
\* order, and the commands returned are, vote after vote in that order, the
\* broadcast of the response vote (when the response was Broadcast) followed
\* by the decision commands read after that vote; only the anti-entropy
\* request that ends a batch may follow them.
C15_CommandsInArrivalOrder ==
    (VotesDone /\ call.pre # None /\ call.result = "Ok") =>
      LET claimed == CmdsInArrivalOrder(call.pre, call.signed_votes,
                                        network_knowledge.prefix)
      IN  /\ \A i \in 1..Len(call.log) : call.log[i].vote = call.signed_votes[i]
          /\ Len(call.cmds) \in {Len(claimed), Len(claimed) + 1}
          /\ SubSeq(call.cmds, 1, Len(claimed)) = claimed
          /\ Len(call.cmds) = Len(claimed) + 1 =>
               call.cmds[Len(call.cmds)].cmd = "SendDirectMsgToNodes"

\* C15 witness: the first vote of a batch was answered by a Broadcast and
\* decided a generation, the second was accepted and the decision read again.
C15_Witness ==
    /\ VotesDone
    /\ call.pre # None
    /\ call.result = "Ok"
    /\ Len(call.log) = 2
    /\ call.log[1].resp = "Broadcast"
    /\ Len(call.log[1].emitted) = 2
    /\ call.log[2].resp = "WaitingForMoreVotes"
    /\ Len(call.log[2].emitted) = 1
    /\ Len(call.cmds) = 3

\* The engine's generation and decision before vote i of the call at hand
\* was handed to it.
GenerationBefore(i) == IF i = 1 THEN Generation(call.pre) ELSE call.log[i - 1].gen

DecisionBefore(i) ==
    IF i = 1 THEN MostRecentDecision(call.pre) ELSE call.log[i - 1].decision

\* C18: the engine's generation is 0 for as long as nothing is decided and
\* is the generation of the most recent decision afterwards; propose and
\* anti_entropy leave it as it is; handle_signed_vote leaves it as it is or
\* advances it by exactly one, and advances it exactly when it sets a new
\* decision, which is of the new generation.
C18_GenerationAdvancesByOne ==
    /\ membership # None =>
         /\ Generation(membership) >= 0
         /\ MostRecentDecision(membership) = None <=> Generation(membership) = 0
         /\ MostRecentDecision(membership) # None =>
              MostRecentDecision(membership).gen = Generation(membership)
    /\ (call # Idle /\ call.pre # None) =>
         /\ Generation(membership) >= Generation(call.pre)
         /\ call.op \in {"propose", "anti_entropy"} =>
              Generation(membership) = Generation(call.pre)
         /\ VotesDone =>
              \A i \in 1..Len(call.log) :
                /\ call.log[i].gen \in {GenerationBefore(i), GenerationBefore(i) + 1}
                /\ call.log[i].gen = GenerationBefore(i) + 1
                     <=> call.log[i].decision # DecisionBefore(i)
                /\ call.log[i].decision # DecisionBefore(i) =>
                     call.log[i].decision.gen = GenerationBefore(i) + 1

\* C18 witness: the second vote of a batch decided the first generation of
\* an engine of two voters.
C18_Witness ==
    /\ VotesDone
    /\ call.pre # None
    /\ call.pre.elders = 2
    /\ Generation(call.pre) = 0
    /\ Len(call.log) = 2
    /\ call.log[1].gen = 0
    /\ call.log[2].gen = 1
    /\ Generation(membership) = 1

\* The generations a peer at generation g lacks of an engine at generation to.
Lacking(g, to) == (g + 1)..to

\* C19: when anti_entropy(g) succeeds on an engine at generation G, the list
\* it returns is empty if and only if g >= G; otherwise the list holds, in
\* the order of their generations, votes of every generation in (g, G] (of
\* each at least the votes of a deciding threshold) and of no other.
C19_AntiEntropyEmptyIffCurrent ==
    (AntiEntropyDone /\ call.pre # None /\ call.engine = "Ok") =>
      LET votes == call.catchup_votes
          lacking == Lacking(call.gen, Generation(call.pre))
      IN  /\ votes = <<>> <=> call.gen >= Generation(call.pre)
          /\ {votes[j].gen : j \in 1..Len(votes)} = lacking
          /\ \A j \in 1..(Len(votes) - 1) : votes[j].gen <= votes[j + 1].gen
          /\ \A g \in lacking :
               Cardinality({j \in 1..Len(votes) : votes[j].gen = g})
                 >= Threshold(call.pre.elders)

\* C19 witness: a peer two generations behind an engine of two voters got
\* the four votes of the two generations it lacks.
C19_Witness ==
    /\ AntiEntropyDone
    /\ call.pre # None
    /\ call.engine = "Ok"
    /\ call.pre.elders = 2
    /\ call.gen > 0
    /\ Generation(call.pre) = call.gen + 2
    /\ Len(call.catchup_votes) = 4

\* C20: when a batch holds the same vote at two places, the engine answers
\* at most one of the two with a Broadcast, and the handler pushes at most
\* one SendMsgToOurElders for the two.
C20_ReplayedVoteBroadcastsOnce ==
    VotesDone =>
      \A i \in 1..Len(call.log), j \in 1..Len(call.log) :
        (i < j /\ call.signed_votes[i] = call.signed_votes[j]) =>
          /\ ~(call.log[i].resp = "Broadcast" /\ call.log[j].resp = "Broadcast")
          /\ CountCmds(call.log[i].emitted, {"SendMsgToOurElders"})
               + CountCmds(call.log[j].emitted, {"SendMsgToOurElders"}) <= 1

\* C20 witness: a batch of the same vote twice; the engine answered the
\* first with a Broadcast and accepted the second.
C20_Witness ==
    /\ VotesDone
    /\ call.result = "Ok"
    /\ Len(call.log) = 2
    /\ call.signed_votes[1] = call.signed_votes[2]
    /\ call.log[1].resp = "Broadcast"
    /\ call.log[2].resp = "WaitingForMoreVotes"

(***************************************************************************)
(* Properties of the handler operations running as concurrent tasks.       *)
(***************************************************************************)
\* The awaits of handle_membership_votes under the guard of a vote.
VoteAwaits == {"send", "sap", "send_ae"}

\* C12: handle_membership_votes takes the engine's write lock once per vote:
\* waiting for the lock for vote i it holds no guard and has taken the lock
\* i - 1 times; suspended while handling vote i it holds the guard taken for
\* that vote, the i-th.  So between two votes of a batch the lock is free
\* for another writer.
C12_EngineLockPerVote ==
    \A t \in Tasks :
      tasks[t].op = "votes" =>
        /\ tasks[t].pc = "engine" =>
             /\ ~HoldsEngineLock(t)
             /\ tasks[t].acquired = tasks[t].i - 1
        /\ tasks[t].pc \in VoteAwaits =>
             /\ engine_lock.writer = t
             /\ tasks[t].acquired = tasks[t].i

\* C12 witness: a task is between the first and the second vote of its batch
\* while another task, having taken the write lock, has proposed a change to
\* the engine and still holds the lock.
C12_Witness ==
    \E t \in Tasks, u \in Tasks :
      /\ t # u
      /\ tasks[t].op = "votes"
      /\ tasks[t].pc = "engine"
      /\ tasks[t].i = 2
      /\ tasks[u].op = "propose"
      /\ tasks[u].pc = "send"
      /\ engine_lock.writer = u
      /\ tasks[u].arg.node_state \in membership.votes[Us]

\* C13, as claimed: a task that holds the engine lock is not at a read of the
\* network-knowledge view.  The handlers read the section authority provider
\* (line 81) and the section key (line 158) inside the scope of the guard.
C13_KnowledgeNeverUnderEngineLock ==
    \A t \in Tasks :
      HoldsEngineLock(t) => tasks[t].pc \notin {"prefix", "sap", "section_key"}

\* C14, as claimed: a task suspended at a send helper does not hold the
\* engine lock.  The handlers await the send helpers inside the scope of
\* the guard (lines 40-42, 67-71, 85-87, 155-160).
C14_NoEngineLockAcrossSend ==
    \A t \in Tasks :
      tasks[t].pc \in {"send", "send_ae"} => ~HoldsEngineLock(t)

\* Task t takes a step.
StepOf(t) == tasks'[t] # tasks[t]

\* Task t is cancelled in this step.
Cancelled(t) == tasks[t].pc # "cancelled" /\ tasks'[t].pc = "cancelled"

\* C16: a step that cancels a task leaves the engine as it is and leaves the
\* task without a guard of the engine lock; and any other step of a task
\* running handle_membership_votes either leaves the engine as it is or is
\* the step that takes the lock for the next vote of its batch and leaves the
\* engine as handle_signed_vote leaves it for that whole vote.  So whenever
\* the task is cancelled, the votes of its batch have been applied to the
\* engine whole and in order up to some vote, and the lock is free of it.
C16_CancellationIsSafe ==
    [][ \A t \in Tasks :
          StepOf(t) =>
            IF Cancelled(t)
            THEN /\ membership' = membership
                 /\ ~HoldsEngineLock(t)'
            ELSE (tasks[t].op = "votes" /\ membership' # membership) =>
                   /\ tasks[t].pc = "engine"
                   /\ tasks[t].acquired = tasks[t].i - 1
                   /\ membership' =
                        HandleSignedVote(membership,
                                         tasks[t].arg.signed_votes[tasks[t].i],
                                         tasks[t].prefix).m
                   /\ \/ tasks'[t] = IdleTask
                      \/ tasks'[t].acquired = tasks[t].i ]_vars

\* C16 witness: a task was cancelled at the send of the response to the
\* second vote of its batch, holding the engine lock, and another task has
\* taken the lock since.
C16_Witness ==
    \E t \in Tasks, u \in Tasks :
      /\ t # u
      /\ tasks[t].op = "votes"
      /\ tasks[t].pc = "cancelled"
      /\ tasks[t].at = "send"
      /\ tasks[t].held
      /\ tasks[t].i = 2
      /\ engine_lock.writer = u

\* C17: no step of a task running a handler operation changes the
\* network-knowledge view, and no step of a task running
\* handle_membership_anti_entropy changes the engine.
C17_HandlersLeaveTheView ==
    [][ \A t \in Tasks :
          StepOf(t) =>
            /\ network_knowledge' = network_knowledge
            /\ (tasks[t].op = "anti_entropy" \/ tasks'[t].op = "anti_entropy") =>
                 membership' = membership ]_vars

\* C17 witness: a task running handle_membership_anti_entropy holds the
\* catch-up votes of an engine with votes pending, after the outer node
\* replaced the section key of the view.
C17_Witness ==
    \E t \in Tasks :
      /\ tasks[t].op = "anti_entropy"
      /\ tasks[t].pc = "send"
      /\ tasks[t].pending # <<>>
      /\ Pending(membership) # {}
      /\ network_knowledge.section_key \notin SectionKeys

(***************************************************************************)
(* Properties of GetGroupKeyResponse::merge.                               *)
(***************************************************************************)
\* merge has run on call.self and call.others.
Merged == call.op = "merge" /\ call.result # NotApplied

\* The responses of a call: the self response, then the peer responses.
Responses(self, others) == <<self>> \o others

AllTargetsMatch(self, others) ==
    \A i \in 1..Len(others) : others[i].target_id = self.target_id

\* How often a pair is reported by the responses, all positions counted.
Occurrences(pair, self, others) ==
    LET all == Responses(self, others)
    IN  Cardinality({ <<r, i>> \in (1..Len(all)) \X (1..MaxSelfKeys) :
                        /\ i <= Len(all[r].public_sign_keys)
                        /\ all[r].public_sign_keys[i] = pair })

\* The distinct pairs the responses report.
Reported(self, others) ==
    {pair \in MergePairs : Occurrences(pair, self, others) > 0}

Range(seq) == {seq[i] : i \in 1..Len(seq)}

\* C22: merge returns no result whenever a peer response names another
\* target than the self response, wherever that response stands in the list
\* and whatever the other responses report.
C22_TargetMismatchGivesNone ==
    (Merged /\ ~AllTargetsMatch(call.self, call.others))
        => call.result = [kind |-> "None"]

\* The only mismatching response is the last one, behind a matching response,
\* and the responses before it report enough pairs for a group.
C22_Witness ==
    /\ Merged
    /\ Len(call.others) = 2
    /\ call.others[1].target_id = call.self.target_id
    /\ call.others[2].target_id # call.self.target_id
    /\ Cardinality(Reported(call.self, <<call.others[1]>>)) >= GROUP_SIZE
    /\ call.result = [kind |-> "None"]

\* The sequence has no pair twice.
Distinct(seq) == \A i, j \in 1..Len(seq) : seq[i] = seq[j] => i = j

\* merge has returned a response for responses of one target.
MergedSome ==
    /\ Merged
    /\ AllTargetsMatch(call.self, call.others)
    /\ call.result.kind = "Some"

\* C23: when all targets match (and the responses report at least GROUP_SIZE
\* distinct pairs), merge returns the target of the self response with
\* exactly GROUP_SIZE pairs in descending order of their occurrence counts,
\* and no pair left out occurs more often than a pair of the result.
C23_TopGroupByCount ==
    ( /\ Merged
      /\ AllTargetsMatch(call.self, call.others)
      /\ Cardinality(Reported(call.self, call.others)) >= GROUP_SIZE )
    => /\ call.result.kind = "Some"
       /\ LET keys == call.result.value.public_sign_keys
              n(pair) == Occurrences(pair, call.self, call.others)
          IN  /\ call.result.value.target_id = call.self.target_id
              /\ Len(keys) = GROUP_SIZE
              /\ Distinct(keys)
              /\ \A i \in 1..(Len(keys) - 1) : n(keys[i]) >= n(keys[i + 1])
              /\ \A out \in Reported(call.self, call.others) \ Range(keys) :
                   \A in \in Range(keys) : n(out) <= n(in)

\* C24: pairs that occur equally often are ordered in the result, and chosen
\* for it, by the natural order of the (name, key) pair, not by the order in
\* which the responses first report them.
C24_TiesByNaturalOrder ==
    MergedSome
    => LET keys == call.result.value.public_sign_keys
           n(pair) == Occurrences(pair, call.self, call.others)
       IN  /\ \A i \in 1..(Len(keys) - 1) :
                n(keys[i]) = n(keys[i + 1]) => PairLess(keys[i], keys[i + 1])
           /\ \A out \in Reported(call.self, call.others) \ Range(keys) :
                \A in \in Range(keys) : n(out) = n(in) => PairLess(in, out)

\* C25: when all targets match and the responses report fewer than
\* GROUP_SIZE distinct pairs, merge returns no response of fewer pairs: it
\* ends in a fatal assertion.
C25_TooFewPairsIsFatal ==
    ( /\ Merged
      /\ AllTargetsMatch(call.self, call.others)
      /\ Cardinality(Reported(call.self, call.others)) < GROUP_SIZE )
    => call.result.kind = "Panic"

\* Several responses of one target report the same single pair, once each,
\* and the assertion on the size of the group ends the call.
C25_Witness ==
    /\ Merged
    /\ Len(call.others) >= 1
    /\ AllTargetsMatch(call.self, call.others)
    /\ Cardinality(Reported(call.self, call.others)) = GROUP_SIZE - 1
    /\ call.result = [kind |-> "Panic", line |-> 84]

WithResponse(others, i, response) ==
    SubSeq(others, 1, i - 1) \o <<response>> \o SubSeq(others, i, Len(others))

\* C27: if merge(R0, L) returns the pairs M, then with one more response of
\* the same target in L, all of whose pairs are in M, merge returns a result
\* that still holds every pair of M.
C27_Monotone ==
    MergedSome
    => LET M == Range(call.result.value.public_sign_keys)
       IN  \A keys \in KeyLists(MaxPeerKeys) :
             Range(keys) \subseteq M
             => \A i \in 1..(Len(call.others) + 1) :
                  LET more == Merge(call.self,
                                    WithResponse(call.others, i,
                                        GetGroupKeyResponse(call.self.target_id, keys)))
                  IN  /\ more.kind = "Some"
                      /\ M \subseteq Range(more.value.public_sign_keys)

(***************************************************************************)
(* Properties of PublicKey.                                                *)
(***************************************************************************)
Verified == call.op = "verify" /\ call.result # NotApplied

\* The signature was made for the data by the secret half of the key.
SignedBy(public_key, signature, data) ==
    signature.signer = public_key.bytes /\ signature.msg = data

Encoded == call.op = "encode" /\ call.result # NotApplied

\* C29: every key of every variant comes back from its z-base-32 encoding and
\* from its serialisation as the same key, of the same variant.
C29_EncodingsRoundTrip ==
    Encoded
    => /\ call.result.decoded = [kind |-> "Ok", value |-> call.public_key]
       /\ call.result.deserialised = [kind |-> "Ok", value |-> call.public_key]
       /\ call.result.decoded.value.variant = call.public_key.variant

\* A BLS-share key, whose bytes a BLS key could have too, is encoded in
\* characters that are not one character for each byte, and read back.
C29_Witness ==
    /\ Encoded
    /\ call.public_key.variant = "BlsShare"
    /\ Len(call.result.encoded) > Len(call.result.serialised)
    /\ call.result.decoded = [kind |-> "Ok", value |-> call.public_key]

Named == call.op = "name" /\ call.result # NotApplied

\* C30: two conversions of one key give the same name: the bytes of an
\* Ed25519 key, the leading XOR_NAME_LEN bytes of a BLS or BLS-share key;
\* no byte of it comes from the random value a conversion starts from.
C30_NameIsDeterministic ==
    Named
    => /\ call.result.names[1] = call.result.names[2]
       /\ \A n \in 1..2 :
            /\ Len(call.result.names[n]) = XOR_NAME_LEN
            /\ \A i \in 1..XOR_NAME_LEN :
                 call.result.names[n][i] = call.public_key.bytes[i]

\* A BLS key is converted from two random starts that differ from each other
\* and from the key in every byte.
C30_Witness ==
    /\ Named
    /\ call.public_key.variant = "Bls"
    /\ \A i \in 1..XOR_NAME_LEN :
         /\ call.random[1][i] # call.random[2][i]
         /\ call.random[1][i] # call.public_key.bytes[i]
         /\ call.random[2][i] # call.public_key.bytes[i]
    /\ call.result.names[1] = call.result.names[2]

(***************************************************************************)
(* Further properties of the membership message handler.                   *)
(***************************************************************************)
\* Vote i of the batch was handled successfully while the engine held a
\* decision, and did not produce a newer one.
Reobserved(i) ==
    /\ call.pre # None
    /\ call.log[i].next = "continue"
    /\ call.log[i].resp \in {"Broadcast", "WaitingForMoreVotes"}
    /\ DecisionBefore(i) # None
    /\ call.log[i].decision = DecisionBefore(i)

\* The decision commands of a decision, entry by entry in key order.
CmdsOfDecision(decision, pk_set, prefix) ==
    LET keys == InKeyOrder(DOMAIN decision.proposals)
    IN  [ j \in 1..Len(keys) |->
            [ cmd |-> IF IsLeavingSection(keys[j], prefix)
                      THEN "HandleNodeLeft" ELSE "HandleNewNodeOnline",
              auth |-> [ value |-> keys[j],
                         sig |-> [ public_key |-> pk_set.master,
                                   signature |-> decision.proposals[keys[j]] ] ] ] ]

\* C31: the handler keeps no record of the decisions it has reported.  Every
\* vote handled successfully while the engine holds a decision, and not
\* producing a newer one, makes the handler push the commands of that
\* decision again, so the commands a call returns hold one copy for each
\* vote handled while the engine held it; and the engine is left as handle_signed_vote left it: reading the
\* decision changes nothing.
C31_DecisionReportedAgain ==
    (VotesDone /\ call.pre # None) =>
      /\ \A i \in 1..Len(call.log) :
           Reobserved(i) =>
             SelectSeq(call.log[i].emitted, IsDecisionCmd)
               = CmdsOfDecision(DecisionBefore(i), call.pre.pk_set,
                                network_knowledge.prefix)
      /\ call.result = "Ok" =>
           \A i \in 1..Len(call.log) :
             Reobserved(i) =>
               \A c \in Range(CmdsOfDecision(DecisionBefore(i), call.pre.pk_set,
                                             network_knowledge.prefix)) :
                 Cardinality({j \in 1..Len(call.cmds) : call.cmds[j] = c})
                   = Cardinality({k \in 1..Len(call.log) :
                                    /\ call.log[k].next = "continue"
                                    /\ call.log[k].decision = DecisionBefore(i)})
      /\ membership.decision =
           ( IF call.log = <<>> THEN call.pre.decision
             ELSE call.log[Len(call.log)].decision )

\* A batch of two votes is handled by an engine that already holds a
\* decision; neither vote produces a newer one, and the call returns the
\* commands of that decision twice.
C31_Witness ==
    /\ VotesDone
    /\ call.pre # None
    /\ call.result = "Ok"
    /\ Len(call.log) = 2
    /\ Reobserved(1)
    /\ Reobserved(2)
    /\ CountCmds(call.cmds, {"HandleNodeLeft", "HandleNewNodeOnline"})
         = 2 * Cardinality(DOMAIN call.pre.decision.proposals)

\* Vote i of the batch was applied by the engine, which then held a decision
\* it did not hold before.
Decided(i) ==
    /\ call.log[i].resp \in {"Broadcast", "WaitingForMoreVotes"}
    /\ call.log[i].decision # None
    /\ call.log[i].decision # DecisionBefore(i)

\* C33: every decision the engine reaches while a batch is handled is
\* reported by that call: when a vote of the batch is applied and the engine
\* then holds a new decision, the call returns Ok with the command of every
\* entry of that decision, however the call ends.
C33_DecisionsReportedByTheCall ==
    (VotesDone /\ call.pre # None) =>
      \A i \in 1..Len(call.log) :
        Decided(i) =>
          /\ call.result = "Ok"
          /\ Range(CmdsOfDecision(call.log[i].decision, call.pre.pk_set,
                                  network_knowledge.prefix))
               \subseteq Range(call.cmds)


(***************************************************************************)
(* Further properties of the concurrent handler operations.                *)
(***************************************************************************)
\* The tasks that run a handler operation and have not returned or been
\* cancelled.
Unfinished == {t \in Tasks : tasks[t].pc \notin {"idle", "cancelled"}}

\* Task t awaits a lock that it cannot get now.
Blocked(t) ==
    CASE tasks[t].pc = "prefix" -> ~CanRead(knowledge_lock)
      [] tasks[t].pc \in {"sap", "section_key"} -> ~CanRead(knowledge_lock)
      [] tasks[t].pc = "engine" /\ tasks[t].op = "anti_entropy" -> ~CanRead(engine_lock)
      [] tasks[t].pc = "engine" -> ~CanWrite(engine_lock)
      [] OTHER -> FALSE

\* The outer node is replacing the view: it holds the view's lock and awaits
\* no lock.
Updating == knowledge_lock.writer # 0

\* C34: no deadlock.  In every reachable state with an unfinished task, some
\* unfinished task is not blocked on the engine lock or the network-knowledge
\* lock, or the outer node holds the network-knowledge lock and is about to
\* drop it; and a lock that blocks a task is held by a task that is itself
\* not blocked on the engine lock, or by the outer node.
C34_NoDeadlock ==
    /\ Unfinished # {} =>
         \/ \E t \in Unfinished : ~Blocked(t)
         \/ Updating
    /\ \A t \in Unfinished :
         Blocked(t) =>
           IF tasks[t].pc = "engine"
           THEN \E u \in Unfinished :
                  /\ u # t
                  /\ HoldsEngineLock(u)
                  /\ tasks[u].pc # "engine"
           ELSE Updating

\* C34 witness: every task is blocked, one on the engine lock that the other
\* holds, the other on the network-knowledge lock that the outer node holds
\* while it replaces the view.
C34_Witness ==
    /\ Unfinished = Tasks
    /\ \A t \in Tasks : Blocked(t)
    /\ \E t \in Tasks, u \in Tasks :
         /\ tasks[t].pc = "engine"
         /\ HoldsEngineLock(u)
         /\ tasks[u].pc \in {"sap", "section_key"}
    /\ Updating


(***************************************************************************)
(* Further properties of GetGroupKeyResponse::merge.                       *)
(***************************************************************************)
\* The orders in which n peer responses can be handed over.
Orders(n) ==
    {p \in [1..n -> 1..n] : \A i, j \in 1..n : p[i] = p[j] => i = j}

\* The peer responses in the order p.
Permuted(others, p) == [i \in 1..Len(others) |-> others[p[i]]]

\* C35: for every self response and every order of the same peer responses
\* with matching targets, merge ends the same way and returns the same
\* public_sign_keys.
C35_OrderOfPeersIrrelevant ==
    (Merged /\ AllTargetsMatch(call.self, call.others))
    => \A p \in Orders(Len(call.others)) :
         Merge(call.self, Permuted(call.others, p)) = call.result

\* C36: with matching targets and at least GROUP_SIZE distinct pairs merge
\* returns a response and trips no assertion, however often the responses
\* report a pair.
C36_NoAssertionOnQuorum ==
    ( /\ Merged
      /\ AllTargetsMatch(call.self, call.others)
      /\ Cardinality(Reported(call.self, call.others)) >= GROUP_SIZE )
    => call.result.kind = "Some"


(***************************************************************************)
(* Properties of RoutingNode::run.                                         *)
(***************************************************************************)
\* The name requests a run has sent.
NameRequests(run) ==
    {i \in 1..Len(run.sent) : run.sent[i].msg.kind = "PutPublicId"}

\* The event handled last is a message that decodes to this.
NewMessageOf(run, bytes) ==
    /\ run.event.kind = "NewMessage"
    /\ run.event.bytes = bytes

\* C37: when the name request has been sent and a PutPublicIdResponse is
\* handled that comes from a registered bootstrap endpoint (and FindGroup
\* can be built), run sends FindGroup to a registered bootstrap endpoint,
\* starts the membrane and returns Ok, whatever other events came before.
C37_NameResponseStartsMembrane ==
    ( /\ call.op = "run"
      /\ NewMessageOf(call, [ type |-> "SignedMessage",
                              routing_message |-> "PutPublicIdResponse" ])
      /\ call.event.endpoint \in call.bootstraps
      /\ call.event.built
      /\ NameRequests(call) # {} )
    => /\ call.result = "Ok"
       /\ call.membrane
       /\ call.sent[Len(call.sent)].msg.kind = "FindGroup"
       /\ call.sent[Len(call.sent)].endpoint \in call.bootstraps

\* C38: in every step of run, at most one name request has been sent; a
\* name request is sent only by the handling of an IAm with a Node address
\* from a registered bootstrap endpoint, to that endpoint; a message from an
\* endpoint that is not registered changes nothing but the event handled;
\* and a NewConnection while a bootstrap endpoint is registered is dropped,
\* leaves the bootstrap state and the run goes on.
C38_NameRequestOnceAndOnlyFromBootstrap ==
    [][ call.op = "run" =>
          LET event == call'.event
          IN  /\ Cardinality(NameRequests(call')) <= 1
              /\ NameRequests(call') # NameRequests(call) =>
                   /\ event.kind = "NewMessage"
                   /\ event.endpoint \in call.bootstraps
                   /\ event.bytes.type = "IAm"
                   /\ event.bytes.address.kind = "Node"
                   /\ call'.sent = Append(call.sent,
                                          [ endpoint |-> event.endpoint,
                                            msg |-> [ kind |-> "PutPublicId",
                                                      relay |-> event.bytes.address.name ] ])
              /\ (event.kind = "NewMessage" /\ event.endpoint \notin call.bootstraps) =>
                   call' = [call EXCEPT !.event = event]
              /\ (event.kind = "NewConnection" /\ call.bootstraps # {}) =>
                   call' = [call EXCEPT !.event = event,
                                        !.dropped = Append(@, event.endpoint)] ]_vars

\* C38 witness: the name request was sent once; a later IAm of the bootstrap
\* node gave another name and no second request; a connection was dropped;
\* and the event handled last is an IAm with a Node address from an endpoint
\* that is not registered.
C38_Witness ==
    /\ call.op = "run"
    /\ call.result = "Running"
    /\ \E i \in NameRequests(call) :
         /\ call.bootstrap.value.name # None
         /\ call.bootstrap.value.name.value # call.sent[i].msg.relay
    /\ call.dropped # <<>>
    /\ call.event.kind = "NewMessage"
    /\ call.event.endpoint \notin call.bootstraps
    /\ call.event.bytes.type = "IAm"
    /\ call.event.bytes.address.kind = "Node"
    /\ call.event.built


(***************************************************************************)
(* Properties of the anti-entropy exchange between two elders.             *)
(***************************************************************************)
\* Elder a has not decided generation gen, which the other elder has
\* decided last.
Behind(a, gen) ==
    /\ call.op = "catchup"
    /\ Generation(call.engines[a]) < gen
    /\ Generation(call.engines[3 - a]) = gen

\* An anti-entropy request of elder a is on its way to the other elder.
Requesting(a) ==
    /\ call.op = "catchup"
    /\ \E cmd \in call.inbox[3 - a] : cmd.msg.type = "MembershipAE"

\* C32: whenever an elder is behind the other one and an anti-entropy
\* request of it is on its way (the answer of its handler to a vote of the
\* other elder that its engine met with RequestAntiEntropy), then, the
\* request and its replies being handled, the elder eventually is at the
\* generation the other elder had, which is the other elder's generation if
\* that elder made no progress, with no anti-entropy request of it left on
\* its way; and in the end it sends no anti-entropy request any more.
C32_CatchUpConverges ==
    \A a \in 1..2 :
      /\ \A gen \in 1..(MaxGen + 1) :
           (Behind(a, gen) /\ Requesting(a))
             ~> (Generation(call.engines[a]) >= gen /\ ~Requesting(a))
      /\ <>[]~Requesting(a)

\* C32 witness: an elder has caught up by anti-entropy: it is at the
\* generation of the other elder, beyond the first, no request of it is on
\* its way, and the other elder's empty reply to its last request is.
C32_Witness ==
    \E a \in 1..2 :
      /\ call.op = "catchup"
      /\ Generation(call.engines[a]) = Generation(call.engines[3 - a])
      /\ Generation(call.engines[a]) > 0
      /\ ~Requesting(a)
      /\ \E cmd \in call.inbox[a] :
           /\ cmd.cmd = "SendDirectMsg"
           /\ cmd.msg.votes = <<>>

====
